---- MODULE Spec2Model ----
(***************************************************************************)
(* Authentication and session lifecycle of todo-api: the users and         *)
(* refresh_tokens tables, the JWT manager, the password manager and the    *)
(* AuthService operations (Register, Login, RefreshToken, Logout,          *)
(* LogoutAll, CleanupExpiredTokens) with the HTTP status each handler      *)
(* answers; and the todos table with the routes that create, read, list,   *)
(* update and delete its rows.                                             *)
(*                                                                         *)
(* A handler that reads the clock or the store more than once takes one    *)
(* step per store statement and per call that reads the clock, so that     *)
(* the calls the server handles side by side interleave at each of them;   *)
(* the clock readings that fill the claims of one token fall in one tick.  *)
(*                                                                         *)
(* Strings are sequences of one-character strings.  Time is counted in     *)
(* ticks, TicksPerSecond ticks to the second: time.Now() and the TIMESTAMP *)
(* columns keep the tick, the NumericDate claims of a token keep only the  *)
(* whole second.                                                           *)
(***************************************************************************)
EXTENDS Integers, Sequences, FiniteSets, TLC

VARIABLES users, refresh_tokens, now, last, revoked, calls, todos, serial

vars == <<users, refresh_tokens, now, last, revoked, calls, todos, serial>>

(* ------------------------------ bounds --------------------------------- *)

\* the clock stops after MaxNow ticks
MaxNow == 5
\* ticks in one second (sub-second resolution of time.Now())
TicksPerSecond == 2
\* Register stops inserting once the users id sequence has given MaxUsers
MaxUsers == 4
\* requests the server handles at the same time
MaxProcs == 2
\* ticks that may pass between two clock readings of one call
MaxDelay == 2
\* todo rows the id sequence of the table gives out
MaxTodos == 2
\* ticks of the clock while the todo routes are exercised, and while Login
\* calls race
MaxTodoNow == 2
\* ticks of the clock while sessions are rotated
MaxRaceNow == 4

(* --------------------------- configuration ----------------------------- *)

\* JWT_ACCESS_TOKEN_EXPIRY, in seconds
AccessSeconds == 1
\* JWT_REFRESH_TOKEN_EXPIRY, in seconds
RefreshSeconds == 2

accessTokenDuration == AccessSeconds * TicksPerSecond
refreshTokenDuration == RefreshSeconds * TicksPerSecond
secretKey == "secret"

(* ------------------------------ strings -------------------------------- *)

Str1(a) == <<a>>

UpperSeq == <<"A","B","C","D","E","F","G","H","I","J","K","L","M",
              "N","O","P","Q","R","S","T","U","V","W","X","Y","Z">>
LowerSeq == <<"a","b","c","d","e","f","g","h","i","j","k","l","m",
              "n","o","p","q","r","s","t","u","v","w","x","y","z">>
DigitSeq == <<"0","1","2","3","4","5","6","7","8","9">>

Range(s) == {s[i] : i \in 1..Len(s)}

IsUpper(c) == c \in Range(UpperSeq)
IsLower(c) == c \in Range(LowerSeq)
IsDigit(c) == c \in Range(DigitSeq)

\* characters that have no one-character name here: U+00E9, U+00C9, U+0000,
\* U+000B (vertical tab), U+0060 (grave accent),
\* U+0085 (next line), U+00A0 (no-break space)
EAcute == "e-acute"
CapitalEAcute == "E-ACUTE"
NUL == "NUL"
VT == "U+000B"
Grave == "U+0060"
NEL == "U+0085"
NBSP == "U+00A0"

\* the white space of Unicode above U+00A0, with the UTF-8 bytes of each
WideSpaces ==
    [c \in {"U+1680", "U+2000", "U+2001", "U+2002", "U+2003", "U+2004",
            "U+2005", "U+2006", "U+2007", "U+2008", "U+2009", "U+200A",
            "U+2028", "U+2029", "U+202F", "U+205F", "U+3000"} |->
       CASE c = "U+1680" -> <<"E1", "9A", "80">>
         [] c = "U+2000" -> <<"E2", "80", "80">>
         [] c = "U+2001" -> <<"E2", "80", "81">>
         [] c = "U+2002" -> <<"E2", "80", "82">>
         [] c = "U+2003" -> <<"E2", "80", "83">>
         [] c = "U+2004" -> <<"E2", "80", "84">>
         [] c = "U+2005" -> <<"E2", "80", "85">>
         [] c = "U+2006" -> <<"E2", "80", "86">>
         [] c = "U+2007" -> <<"E2", "80", "87">>
         [] c = "U+2008" -> <<"E2", "80", "88">>
         [] c = "U+2009" -> <<"E2", "80", "89">>
         [] c = "U+200A" -> <<"E2", "80", "8A">>
         [] c = "U+2028" -> <<"E2", "80", "A8">>
         [] c = "U+2029" -> <<"E2", "80", "A9">>
         [] c = "U+202F" -> <<"E2", "80", "AF">>
         [] c = "U+205F" -> <<"E2", "81", "9F">>
         [] c = "U+3000" -> <<"E3", "80", "80">>]

\* unicode.IsSpace
IsSpace(c) ==
    \/ c \in {"\t", "\n", VT, "\f", "\r", " ", NEL, NBSP}
    \/ c \in DOMAIN WideSpaces

ToLowerChar(c) ==
    IF IsUpper(c) THEN LowerSeq[CHOOSE i \in 1..Len(UpperSeq) : UpperSeq[i] = c]
    ELSE IF c = CapitalEAcute THEN EAcute
    ELSE c

\* the UTF-8 encoding of a character
Utf8(c) ==
    IF c = EAcute THEN <<"C3", "A9">>
    ELSE IF c = CapitalEAcute THEN <<"C3", "89">>
    ELSE IF c = NUL THEN <<"00">>
    ELSE IF c = VT THEN <<"0B">>
    ELSE IF c = NEL THEN <<"C2", "85">>
    ELSE IF c = NBSP THEN <<"C2", "A0">>
    ELSE IF c \in DOMAIN WideSpaces THEN WideSpaces[c]
    ELSE <<c>>

\* []byte(s)
RECURSIVE Bytes(_)
Bytes(s) == IF s = <<>> THEN <<>> ELSE Utf8(Head(s)) \o Bytes(Tail(s))

\* strings.ToLower
ToLower(s) == [i \in 1..Len(s) |-> ToLowerChar(s[i])]

RECURSIVE TrimLeft(_)
TrimLeft(s) ==
    IF s = <<>> THEN s
    ELSE IF IsSpace(Head(s)) THEN TrimLeft(Tail(s)) ELSE s

RECURSIVE TrimRight(_)
TrimRight(s) ==
    IF s = <<>> THEN s
    ELSE IF IsSpace(s[Len(s)]) THEN TrimRight(SubSeq(s, 1, Len(s) - 1)) ELSE s

\* strings.TrimSpace
TrimSpace(s) == TrimRight(TrimLeft(s))

\* strings.Contains(s, "@")
ContainsAt(s) == \E i \in 1..Len(s) : s[i] = "@"

\* a normalization that forgets to lower-case
NormalizeEmailNoLower(s) == TrimSpace(s)

\* strings.ToLower(strings.TrimSpace(x)) as Register and Login apply it
NormalizeEmail(s) == ToLower(TrimSpace(s))
NormalizeUsername(s) == ToLower(TrimSpace(s))
NormalizeLogin(s) == ToLower(TrimSpace(s))

(* ----------------------------- passwords ------------------------------- *)

\* ValidatePasswordStrength: "nil" or the rule that is not met; len() counts
\* bytes and the three classes are the ASCII ranges A-Z, a-z and 0-9
ValidatePasswordStrength(p) ==
    IF Len(Bytes(p)) < 8 THEN "length"
    ELSE IF ~ \E i \in 1..Len(p) : IsUpper(p[i]) THEN "uppercase"
    ELSE IF ~ \E i \in 1..Len(p) : IsLower(p[i]) THEN "lowercase"
    ELSE IF ~ \E i \in 1..Len(p) : IsDigit(p[i]) THEN "number"
    ELSE "nil"

\* the empty hash string
NoHash == [bcrypt |-> <<>>]

\* bytes of the key the Blowfish key schedule of bcrypt reads
BcryptKeyLen == 72

\* the key bcrypt derives the hash from: the password bytes and a trailing
\* zero byte, read cyclically up to BcryptKeyLen bytes
BcryptKey(p) ==
    LET k == Append(Bytes(p), "00")
    IN  [i \in 1..BcryptKeyLen |-> k[((i - 1) % Len(k)) + 1]]

\* golang.org/x/crypto/bcrypt as built: GenerateFromPassword either rejects
\* a password of more than BcryptKeyLen bytes or hashes its first bytes
BcryptBuilds == {"rejects", "truncates"}

\* bcrypt.GenerateFromPassword; the salt does not bear on verification
GenerateFromPassword(p, build) ==
    IF Len(Bytes(p)) > BcryptKeyLen /\ build = "rejects"
    THEN [hash |-> NoHash, err |-> "bcrypt.ErrPasswordTooLong"]
    ELSE [hash |-> [bcrypt |-> BcryptKey(p)], err |-> "nil"]

\* PasswordManager.HashPassword in a given build: err is "nil", "empty" or
\* the error of bcrypt
HashPasswordIn(p, build) ==
    IF p = <<>> THEN [hash |-> NoHash, err |-> "empty"]
    ELSE GenerateFromPassword(p, build)

\* PasswordManager.HashPassword; the builds agree on the passwords of at
\* most BcryptKeyLen bytes
HashPassword(p) == HashPasswordIn(p, "rejects")

\* PasswordManager.CheckPassword: "nil" or "ErrInvalidPassword"
CheckPassword(p, hash) ==
    IF p = <<>> \/ hash = NoHash THEN "ErrInvalidPassword"
    ELSE IF hash.bcrypt = BcryptKey(p) THEN "nil" ELSE "ErrInvalidPassword"

(* -------------------------------- JWT ---------------------------------- *)

\* jwt.NewNumericDate: the time truncated to the whole second
NumericDate(t) == t \div TicksPerSecond

\* the instant a NumericDate claim stands for
DateTime(sec) == sec * TicksPerSecond

\* the signing methods the key function accepts (*jwt.SigningMethodHMAC)
SigningMethodHMAC == {"HS256", "HS384", "HS512"}

\* fmt.Sprintf("%d", n) for n >= 0
RECURSIVE Itoa(_)
Itoa(n) ==
    IF n < 10 THEN <<DigitSeq[n + 1]>>
    ELSE Append(Itoa(n \div 10), DigitSeq[(n % 10) + 1])

\* JWTManager.GenerateAccessToken at time t; the signed string is the
\* header, the claims and the key of the signature
GenerateAccessToken(user, t) ==
    [alg |-> "HS256", key |-> secretKey,
     user_id |-> user.id, email |-> user.email, username |-> user.username,
     is_admin |-> user.is_admin,
     exp |-> NumericDate(t + accessTokenDuration),
     iat |-> NumericDate(t), nbf |-> NumericDate(t),
     iss |-> "todo-api", sub |-> Itoa(user.id)]

\* JWTManager.GenerateRefreshToken at time t: (tokenString, expiresAt)
GenerateRefreshToken(t) ==
    [token |-> [alg |-> "HS256", key |-> secretKey,
                exp |-> NumericDate(t + refreshTokenDuration),
                iat |-> NumericDate(t), iss |-> "todo-api"],
     expiresAt |-> t + refreshTokenDuration]

\* JWTManager.ValidateRefreshToken: "nil" or an error; jwt.ParseWithClaims
\* reads the clock at t1 and its error is returned as the library made it,
\* the manager's own expiry test reads the clock again at t2
ValidateRefreshToken(tok, t1, t2) ==
    IF tok.alg \notin SigningMethodHMAC THEN "jwt.ErrTokenUnverifiable"
    ELSE IF tok.key # secretKey THEN "jwt.ErrTokenSignatureInvalid"
    ELSE IF ~ (t1 < DateTime(tok.exp)) THEN "jwt.ErrTokenExpired"
    ELSE IF DateTime(tok.exp) < t2 THEN "ErrExpiredToken"
    ELSE "nil"

\* a nil *CustomClaims
NoClaims == [user_id |-> 0]

\* the CustomClaims of a parsed access token
Claims(tok) ==
    [user_id |-> tok.user_id, email |-> tok.email, username |-> tok.username,
     is_admin |-> tok.is_admin, exp |-> tok.exp, iat |-> tok.iat,
     nbf |-> tok.nbf, iss |-> tok.iss, sub |-> tok.sub]

\* a verification that also wants a session row of the token's user
ValidateTokenWithSession(tok, t1, t2) ==
    IF tok.alg \notin SigningMethodHMAC
    THEN [err |-> "jwt.ErrTokenUnverifiable", claims |-> NoClaims]
    ELSE IF tok.key # secretKey
    THEN [err |-> "jwt.ErrTokenSignatureInvalid", claims |-> NoClaims]
    ELSE IF ~ (t1 < DateTime(tok.exp))
    THEN [err |-> "jwt.ErrTokenExpired", claims |-> NoClaims]
    ELSE IF t1 < DateTime(tok.nbf)
    THEN [err |-> "jwt.ErrTokenNotValidYet", claims |-> NoClaims]
    ELSE IF DateTime(tok.exp) < t2
    THEN [err |-> "ErrExpiredToken", claims |-> NoClaims]
    ELSE IF ~ \E r \in refresh_tokens : r.user_id = tok.user_id
    THEN [err |-> "ErrInvalidToken", claims |-> NoClaims]
    ELSE [err |-> "nil", claims |-> Claims(tok)]

\* JWTManager.ValidateToken: jwt.ParseWithClaims reads the clock at t1 and
\* its error is returned as the library made it; the manager's own expiry
\* test reads the clock again at t2
ValidateToken(tok, t1, t2) ==
    IF tok.alg \notin SigningMethodHMAC
    THEN [err |-> "jwt.ErrTokenUnverifiable", claims |-> NoClaims]
    ELSE IF tok.key # secretKey
    THEN [err |-> "jwt.ErrTokenSignatureInvalid", claims |-> NoClaims]
    ELSE IF ~ (t1 < DateTime(tok.exp))
    THEN [err |-> "jwt.ErrTokenExpired", claims |-> NoClaims]
    ELSE IF t1 < DateTime(tok.nbf)
    THEN [err |-> "jwt.ErrTokenNotValidYet", claims |-> NoClaims]
    ELSE IF DateTime(tok.exp) < t2
    THEN [err |-> "ErrExpiredToken", claims |-> NoClaims]
    ELSE [err |-> "nil", claims |-> Claims(tok)]

\* JWTManager.GetAccessTokenDuration: whole seconds
GetAccessTokenDuration == accessTokenDuration \div TicksPerSecond

(* ---------------------------- repository ------------------------------- *)

\* a nil *models.User, a nil *models.RefreshToken, a NULL timestamp
NoUser == [id |-> 0]
NoRow == [user_id |-> 0]
Null == -1

\* a SELECT that forgets its WHERE clause and returns the first row
GetByIDFirstRow(id) ==
    IF users # {}
    THEN CHOOSE u \in users : \A v \in users : u.id <= v.id ELSE NoUser

\* SELECT ... FROM users WHERE id = $1
GetByID(id) ==
    IF \E u \in users : u.id = id
    THEN CHOOSE u \in users : u.id = id ELSE NoUser

\* SELECT ... FROM users WHERE username = $1
GetByUsername(username) ==
    IF \E u \in users : u.username = username
    THEN CHOOSE u \in users : u.username = username ELSE NoUser

\* SELECT ... FROM users WHERE email = $1
GetByEmail(email) ==
    IF \E u \in users : u.email = email
    THEN CHOOSE u \in users : u.email = email ELSE NoUser

ExistsByEmail(email) == \E u \in users : u.email = email
ExistsByUsername(username) == \E u \in users : u.username = username

\* INSERT INTO users ... RETURNING id: the next value of the sequence of
\* the SERIAL column, which an INSERT that fails has drawn all the same
NextUserID == serial.users + 1

\* UPDATE users SET last_login_at = $1 WHERE id = $2
UpdateLastLogin(tbl, userID, t) ==
    {IF u.id = userID THEN [u EXCEPT !.last_login_at = t] ELSE u : u \in tbl}

\* the UNIQUE constraint on refresh_tokens.token lets the INSERT through
TokenIsFree(rows, token) == ~ \E r \in rows : r.token = token

\* an INSERT that binds time.Now() to expires_at
SaveRefreshTokenSwapped(rows, userID, token, expiresAt) ==
    rows \cup {[user_id |-> userID, token |-> token, expires_at |-> now]}

\* INSERT INTO refresh_tokens (user_id, token, expires_at, created_at)
SaveRefreshToken(rows, userID, token, expiresAt) ==
    rows \cup {[user_id |-> userID, token |-> token, expires_at |-> expiresAt]}

\* a lookup that still returns a row at the instant it expires
GetRefreshTokenInclusive(rows, token, t) ==
    IF \E r \in rows : r.token = token /\ r.expires_at >= t
    THEN CHOOSE r \in rows : r.token = token /\ r.expires_at >= t
    ELSE NoRow

\* SELECT ... WHERE token = $1 AND expires_at > $2
GetRefreshToken(rows, token, t) ==
    IF \E r \in rows : r.token = token /\ r.expires_at > t
    THEN CHOOSE r \in rows : r.token = token /\ r.expires_at > t
    ELSE NoRow

\* a DELETE that removes every row of the user who owns the token
DeleteRefreshTokenOfOwner(rows, token) ==
    {r \in rows :
        ~ \E x \in rows : x.token = token /\ x.user_id = r.user_id}

\* DELETE FROM refresh_tokens WHERE token = $1
DeleteRefreshToken(rows, token) == {r \in rows : r.token # token}

\* a sweep that also removes the rows expiring at the instant it observed
DeleteExpiredInclusive(rows, t) == {r \in rows : ~ (r.expires_at <= t)}

\* a sweep that also removes the rows expiring within the next second
DeleteExpiredWithinSecond(rows, t) ==
    {r \in rows : ~ (r.expires_at < t + TicksPerSecond)}

\* DELETE FROM refresh_tokens WHERE expires_at < $1
DeleteExpiredRefreshTokens(rows, t) == {r \in rows : ~ (r.expires_at < t)}

\* DELETE FROM refresh_tokens WHERE user_id = $1
DeleteUserRefreshTokens(rows, userID) == {r \in rows : r.user_id # userID}

\* the token strings stored in a table
TokensOf(rows) == {r.token : r \in rows}

(* ------------------------------ inputs --------------------------------- *)

Ali == <<"a","l","i">>
Bob == <<"b","o","b">>
Cat == <<"c","a","t">>
Zed == <<"z","e","d">>
AliMail == <<"a","@","x",".","y">>
BobMail == <<"b","@","x",".","y">>
CatMail == <<"c","@","x",".","y">>
Passw0rd == <<"P","a","s","s","w","0","r","d">>
Wr0ngPwd == <<"W","r","0","n","g","P","w","d">>
password == <<"p","a","s","s","w","o","r","d">>

\* request bodies of POST /auth/register: emails in capitals, between
\* blanks that the email rule refuses and after one that it lets through;
\* usernames in capitals between white space
EmailInputs == {AliMail, <<"A","@","X",".","Y">>,
                <<" ","a","@","x",".","y"," ">>,
                <<NBSP,"a","@","x",".","y">>, CatMail}
UsernameInputs == {Ali, <<"\f","A","L","I",NBSP>>, Cat}
PasswordInputs == {Passw0rd, password}

\* a name of n characters
LongName(n) == [i \in 1..n |-> "x"]

\* first and last names of the Register calls: left out, between blanks
\* with the greatest length the binding lets through, and either of them one
\* character longer
NameInputs ==
    {<< <<>>, <<>> >>,
     << <<" ","A","l"," ">>, LongName(100) >>,
     << LongName(101), <<>> >>,
     << <<>>, LongName(101) >>}

\* request bodies of POST /auth/login
LoginInputs == {<<VT,"A","L","I",NEL>>, Bob, CatMail, Zed}
LoginPasswords == {Passw0rd, Wr0ngPwd}

\* the refresh token minted in second sec
TokenOfSecond(sec) == GenerateRefreshToken(DateTime(sec)).token

\* every refresh token the service can mint before the clock stops
SignedTokens == {TokenOfSecond(sec) : sec \in 0..NumericDate(MaxNow)}

\* request bodies of POST /auth/refresh and /auth/logout: the minted tokens,
\* one signed with another key, one with alg none
RefreshTokenInputs ==
    SignedTokens
    \cup {[TokenOfSecond(0) EXCEPT !.key = "other"],
          [TokenOfSecond(0) EXCEPT !.alg = "none"]}

\* store failures: the statement that returns a driver error during the call
LoginFaults == {"none", "save", "lastlogin"}
RefreshFaults == {"none", "delete", "save"}
RegisterFaults == {"none", "create"}

(* ------------------------------ handlers ------------------------------- *)

\* the places of character c in string s
Places(s, c) == {i \in 1..Len(s) : s[i] = c}

\* binding:"email": the address matches the regular expression of go-playground/validator
\* for e-mail: a local part that is a dot-atom or a quoted string, "@", and
\* a domain of labels and a top-level label with an optional final dot.

\* [a-zA-Z]
IsLetter(c) == IsUpper(c) \/ IsLower(c)

\* [\x{00A0}-\x{D7FF}\x{F900}-\x{FDCF}\x{FDF0}-\x{FFEF}]
IsWide(c) == c \in {EAcute, CapitalEAcute, NBSP} \/ c \in DOMAIN WideSpaces

\* a character of an atom of the local part
IsAtomChar(c) ==
    \/ IsLetter(c) \/ IsDigit(c) \/ IsWide(c)
    \/ c \in {"!", "#", "$", "%", "&", "'", "*", "+", "-", "/", "=", "?",
              "^", "_", Grave, "{", "|", "}", "~"}

\* atoms separated by single dots
IsDotAtom(s) ==
    /\ s # <<>>
    /\ \A i \in 1..Len(s) : IsAtomChar(s[i]) \/ s[i] = "."
    /\ s[1] # "." /\ s[Len(s)] # "."
    /\ \A i \in 1..(Len(s) - 1) : ~ (s[i] = "." /\ s[i + 1] = ".")

\* a character between the quotes: [\x01-\x09\x0b\x0c\x0d-\x7f] or wide
IsQuotedChar(c) == c \notin {NUL, "\n", NEL}

\* folding white space: ((space|tab)* CR LF)? (space|tab)+
IsFoldingSpace(t) ==
    LET blank(i) == t[i] \in {" ", "\t"}
    IN  /\ t # <<>>
        /\ \/ \A i \in 1..Len(t) : blank(i)
           \/ \E k \in 1..(Len(t) - 2) :
                 /\ t[k] = "\r" /\ t[k + 1] = "\n"
                 /\ \A i \in (1..Len(t)) \ {k, k + 1} : blank(i)

\* s from place i on is (folding-space? quoted-char)* folding-space?
RECURSIVE IsQuotedContent(_, _)
IsQuotedContent(s, i) ==
    \/ i > Len(s)
    \/ IsQuotedChar(s[i]) /\ IsQuotedContent(s, i + 1)
    \/ \E j \in (i + 1)..(Len(s) + 1) :
          /\ IsFoldingSpace(SubSeq(s, i, j - 1))
          /\ \/ j > Len(s)
             \/ IsQuotedChar(s[j]) /\ IsQuotedContent(s, j + 1)

IsQuotedString(s) ==
    /\ Len(s) >= 2
    /\ s[1] = "\"" /\ s[Len(s)] = "\""
    /\ IsQuotedContent(SubSeq(s, 2, Len(s) - 1), 1)

\* a character inside a label of the domain
IsLabelChar(c) ==
    IsLetter(c) \/ IsDigit(c) \/ IsWide(c) \/ c \in {"-", ".", "~"}

\* a label (digits allowed at its ends) or a top-level label (not allowed)
IsLabel(s, top) ==
    LET edge(c) == IsLetter(c) \/ IsWide(c) \/ (~ top /\ IsDigit(c))
    IN  /\ s # <<>>
        /\ edge(s[1]) /\ edge(s[Len(s)])
        /\ \A i \in 1..Len(s) : IsLabelChar(s[i])

\* (label ".")+ top-level-label
IsDomain(d) ==
    \E k \in 2..(Len(d) - 1) :
       /\ d[k] = "."
       /\ IsLabel(SubSeq(d, 1, k - 1), FALSE)
       /\ IsLabel(SubSeq(d, k + 1, Len(d)), TRUE)

IsEmail(s) ==
    /\ Places(s, "@") # {}
    /\ LET at == CHOOSE i \in Places(s, "@") :
                    \A j \in Places(s, "@") : j <= i
           local == SubSeq(s, 1, at - 1)
           domain == SubSeq(s, at + 1, Len(s))
       IN  /\ IsDotAtom(local) \/ IsQuotedString(local)
           /\ \/ IsDomain(domain)
              \/ /\ domain # <<>>
                 /\ domain[Len(domain)] = "."
                 /\ IsDomain(SubSeq(domain, 1, Len(domain) - 1))

\* ShouldBindJSON of models.CreateUserRequest: the rules of its five
\* fields, lengths counted in characters
BindCreateUserRequest(email, username, pw, firstName, lastName) ==
    /\ email # <<>> /\ IsEmail(email)
    /\ username # <<>> /\ Len(username) >= 3 /\ Len(username) <= 50
    /\ pw # <<>> /\ Len(pw) >= 8 /\ Len(pw) <= 100
    /\ Len(firstName) <= 100
    /\ Len(lastName) <= 100

\* ShouldBindJSON of models.LoginRequest
BindLoginRequest(ident, pw) == ident # <<>> /\ pw # <<>>

NoTokens == [token_type |-> ""]

\* User.ToResponse
ToResponse(u) ==
    [id |-> u.id, email |-> u.email, username |-> u.username,
     first_name |-> u.first_name, last_name |-> u.last_name,
     is_active |-> u.is_active, is_admin |-> u.is_admin,
     last_login_at |-> u.last_login_at]

\* models.TokenResponse as Login and RefreshToken build it
TokenResponse(accessToken, refreshToken) ==
    [access_token |-> accessToken, refresh_token |-> refreshToken,
     token_type |-> "Bearer", expires_in |-> GetAccessTokenDuration]

\* AuthHandler.Register: the status answered for a service error
RegisterStatus(err) ==
    IF err = "nil" THEN 201
    ELSE IF err = "ErrEmailExists" THEN 409
    ELSE IF err = "ErrUsernameExists" THEN 409
    ELSE IF err = "ErrInvalidInput" THEN 400
    ELSE 500

\* AuthHandler.Login
LoginStatus(err) ==
    IF err = "nil" THEN 200
    ELSE IF err = "ErrInvalidCredentials" THEN 401
    ELSE IF err = "ErrUserNotActive" THEN 403
    ELSE 500

\* AuthHandler.RefreshToken
RefreshStatus(err) ==
    IF err = "nil" THEN 200
    ELSE IF err = "ErrInvalidRefreshToken" THEN 401
    ELSE 500

\* AuthHandler.Logout and AuthHandler.LogoutAll
LogoutStatus(err) == IF err = "nil" THEN 200 ELSE 500

(* ------------------------------ service -------------------------------- *)

\* the user Login looks up for an identifier: by email when the normalized
\* identifier contains "@", by username otherwise
LoginUser(ident) ==
    IF ContainsAt(NormalizeLogin(ident))
    THEN GetByEmail(NormalizeLogin(ident))
    ELSE GetByUsername(NormalizeLogin(ident))

\* the result of a service call that changes nothing
Fail(err) ==
    [err |-> err, tokens |-> NoTokens, user |-> NoUser,
     users |-> users, refresh_tokens |-> refresh_tokens, serial |-> serial]

\* the sequences after the INSERT INTO users has drawn an id
DrawUserID == [serial EXCEPT !.users = NextUserID]

\* the owner of a session row is missing or deactivated, whatever else the
\* row says
OwnerRefusedMissingOnly(user) == user.id = 0

\* AuthService.RefreshToken: user == nil || !user.IsActive
OwnerRefused(user) == user.id = 0 \/ ~ user.is_active

\* AuthService.Logout
LogoutOutcome(tok, f) ==
    IF f = "delete" THEN Fail("internal")
    ELSE [Fail("nil") EXCEPT
            !.refresh_tokens = DeleteRefreshToken(refresh_tokens, tok)]

\* AuthService.LogoutAll
LogoutAllOutcome(userID, f) ==
    IF f = "delete" THEN Fail("internal")
    ELSE [Fail("nil") EXCEPT
            !.refresh_tokens = DeleteUserRefreshTokens(refresh_tokens, userID)]

(* ------------------------------- todos --------------------------------- *)

\* a pointer field of a request or a query value: <<>> when it is nil or
\* absent, <<v>> when it holds v
Nil == <<>>
Ptr(v) == <<v>>

\* the todos table before the first insert
NoTodos == {}
NoTodo == [id |-> 0]

\* Go's int on a 64-bit build.  A natural number is the sequence of its
\* bytes, lowest first and without high zeros (0 is <<>>); an int is a sign
\* and a magnitude, and every operation wraps to 64 bits.
Byte == 256
IntSize == 8

\* high zeros removed
RECURSIVE Strip(_)
Strip(d) ==
    IF d = <<>> \/ d[Len(d)] # 0 THEN d ELSE Strip(SubSeq(d, 1, Len(d) - 1))

\* the bytes of the number n >= 0
RECURSIVE NatDigits(_)
NatDigits(n) ==
    IF n = 0 THEN <<>> ELSE <<n % Byte>> \o NatDigits(n \div Byte)

\* the number of the bytes d, for a number below 2^31
RECURSIVE NatValue(_)
NatValue(d) == IF d = <<>> THEN 0 ELSE Head(d) + Byte * NatValue(Tail(d))

NatLess(a, b) ==
    IF Len(a) # Len(b) THEN Len(a) < Len(b)
    ELSE \E i \in 1..Len(a) :
            a[i] < b[i] /\ \A j \in (i + 1)..Len(a) : a[j] = b[j]

RECURSIVE NatAddCarry(_, _, _)
NatAddCarry(a, b, carry) ==
    IF a = <<>> /\ b = <<>>
    THEN IF carry = 0 THEN <<>> ELSE <<carry>>
    ELSE LET x == (IF a = <<>> THEN 0 ELSE Head(a))
                  + (IF b = <<>> THEN 0 ELSE Head(b)) + carry
         IN  <<x % Byte>> \o NatAddCarry(IF a = <<>> THEN a ELSE Tail(a),
                                         IF b = <<>> THEN b ELSE Tail(b),
                                         x \div Byte)

NatAdd(a, b) == NatAddCarry(a, b, 0)

RECURSIVE NatSubBorrow(_, _, _)
NatSubBorrow(a, b, borrow) ==
    IF a = <<>> THEN <<>>
    ELSE LET x == Head(a) - (IF b = <<>> THEN 0 ELSE Head(b)) - borrow
         IN  <<(x + Byte) % Byte>>
             \o NatSubBorrow(Tail(a), IF b = <<>> THEN b ELSE Tail(b),
                             IF x < 0 THEN 1 ELSE 0)

\* a - b for a >= b
NatSub(a, b) == Strip(NatSubBorrow(a, b, 0))

\* a times k plus carry, for k and carry below Byte
RECURSIVE NatMulDigit(_, _, _)
NatMulDigit(a, k, carry) ==
    IF a = <<>> THEN NatDigits(carry)
    ELSE LET x == Head(a) * k + carry
         IN  <<x % Byte>> \o NatMulDigit(Tail(a), k, x \div Byte)

RECURSIVE NatMul(_, _)
NatMul(a, b) ==
    IF a = <<>> \/ b = <<>> THEN <<>>
    ELSE Strip(NatAdd(NatMulDigit(a, Head(b), 0),
                      <<0>> \o NatMul(a, Tail(b))))

\* quotient and remainder of a by b > 0, by long division
RECURSIVE NatDivMod(_, _)
NatDivMod(a, b) ==
    IF a = <<>> THEN [q |-> <<>>, r |-> <<>>]
    ELSE LET high == NatDivMod(Tail(a), b)
             r == Strip(<<Head(a)>> \o high.r)
             k == CHOOSE k \in 0..(Byte - 1) :
                     NatLess(r, Strip(NatMulDigit(b, k + 1, 0)))
         IN  [q |-> Strip(<<k>> \o high.q),
              r |-> NatSub(r, Strip(NatMulDigit(b, k, 0)))]

\* 2^63 and 2^64
Two63 == [i \in 1..IntSize |-> IF i = IntSize THEN Byte \div 2 ELSE 0]
Two64 == [i \in 1..(IntSize + 1) |-> IF i = IntSize + 1 THEN 1 ELSE 0]

\* the int of the number n
Int64(n) ==
    [neg |-> n < 0, mag |-> NatDigits(IF n < 0 THEN - n ELSE n)]

\* the number of the int v, for a magnitude below 2^31
IntValue(v) == IF v.neg THEN - NatValue(v.mag) ELSE NatValue(v.mag)

math_MaxInt64 == [neg |-> FALSE, mag |-> NatSub(Two63, <<1>>)]
math_MinInt64 == [neg |-> TRUE, mag |-> Two63]

\* the int that a result of sign neg and magnitude mag wraps to: the low
\* IntSize bytes of its two's complement
Wrap64(neg, mag) ==
    LET m == Strip(SubSeq(mag, 1, IF Len(mag) < IntSize THEN Len(mag)
                                  ELSE IntSize))
        u == IF neg /\ m # <<>> THEN NatSub(Two64, m) ELSE m
    IN  IF NatLess(u, Two63) THEN [neg |-> FALSE, mag |-> u]
        ELSE [neg |-> TRUE, mag |-> NatSub(Two64, u)]

Less64(a, b) ==
    IF a.neg # b.neg THEN a.neg
    ELSE IF a.neg THEN NatLess(b.mag, a.mag) ELSE NatLess(a.mag, b.mag)

Add64(a, b) ==
    IF a.neg = b.neg THEN Wrap64(a.neg, NatAdd(a.mag, b.mag))
    ELSE IF NatLess(a.mag, b.mag) THEN Wrap64(b.neg, NatSub(b.mag, a.mag))
    ELSE Wrap64(a.neg, NatSub(a.mag, b.mag))

Sub64(a, b) == Add64(a, [neg |-> ~ b.neg, mag |-> b.mag])

Mul64(a, b) == Wrap64(a.neg # b.neg, NatMul(a.mag, b.mag))

\* a / b for b # 0: the quotient is truncated toward zero
Div64(a, b) == Wrap64(a.neg # b.neg, NatDivMod(a.mag, b.mag).q)

\* the number a decimal string writes
RECURSIVE DecimalDigits(_)
DecimalDigits(s) ==
    IF s = <<>> THEN <<>>
    ELSE Strip(NatMulDigit(DecimalDigits(SubSeq(s, 1, Len(s) - 1)), 10,
                           CHOOSE d \in 0..9 : DigitSeq[d + 1] = s[Len(s)]))

\* the digits a string starts with
RECURSIVE LeadingDigits(_)
LeadingDigits(s) ==
    IF s = <<>> \/ ~ IsDigit(Head(s)) THEN <<>>
    ELSE <<Head(s)>> \o LeadingDigits(Tail(s))

\* strconv.Atoi: an optional sign and at least one digit.  The digits are
\* read from the left: a running value above 2^64 - 1 is ErrRange with the
\* nearest int before any later byte is read; a byte that is no digit, or
\* no digit at all, is ErrSyntax with the value 0; a value outside int is
\* ErrRange with the nearest int
Atoi(s) ==
    LET signed == s # <<>> /\ s[1] \in {"+", "-"}
        neg == signed /\ s[1] = "-"
        digits == IF signed THEN Tail(s) ELSE s
        lead == LeadingDigits(digits)
        mag == DecimalDigits(lead)
        clamp == [n |-> IF neg THEN math_MinInt64 ELSE math_MaxInt64,
                  err |-> "ErrRange"]
    IN  IF ~ NatLess(mag, Two64) THEN clamp
        ELSE IF digits = <<>> \/ lead # digits
        THEN [n |-> Int64(0), err |-> "ErrSyntax"]
        ELSE IF ~ neg /\ ~ NatLess(mag, Two63) THEN clamp
        ELSE IF neg /\ NatLess(Two63, mag) THEN clamp
        ELSE [n |-> Wrap64(neg, mag), err |-> "nil"]

\* c.DefaultQuery: the value of the key, or the default when it is absent
DefaultQuery(q, default) == IF q = Nil THEN default ELSE q[1]

\* the page size TodoService.List uses when the caller's is out of range
DefaultPageSize == 20
MaxPageSize == 100

\* the id the SERIAL column gives the next row: the next value of its
\* sequence, which never gives a value twice
NextTodoID == serial.todos + 1

\* TodoRepository.Create
TodoCreate(title, description) ==
    [id |-> NextTodoID, title |-> title, description |-> description,
     completed |-> FALSE, completed_at |-> Null,
     created_at |-> now, updated_at |-> now]

\* TodoRepository.GetByID
TodoGetByID(id) ==
    IF \E t \in todos : t.id = id THEN CHOOSE t \in todos : t.id = id
    ELSE NoTodo

\* an UPDATE that keeps completed_at when completed becomes false
TodoUpdateKeepsStamp(row, req) ==
    [row EXCEPT
       !.updated_at = now,
       !.title = IF req.title # Nil THEN req.title[1] ELSE @,
       !.description = IF req.description # Nil THEN req.description[1] ELSE @,
       !.completed = IF req.completed # Nil THEN req.completed[1] ELSE @,
       !.completed_at = IF req.completed = Ptr(TRUE) THEN now ELSE @]

\* TodoRepository.Update: the row after the UPDATE built from the fields
\* the request provides
TodoUpdate(row, req) ==
    [row EXCEPT
       !.updated_at = now,
       !.title = IF req.title # Nil THEN req.title[1] ELSE @,
       !.description = IF req.description # Nil THEN req.description[1] ELSE @,
       !.completed = IF req.completed # Nil THEN req.completed[1] ELSE @,
       !.completed_at = IF req.completed = Nil THEN @
                        ELSE IF req.completed[1] THEN now ELSE Null]

\* the orders in which SELECT ... ORDER BY created_at DESC may return the
\* rows: rows created at the same instant come in any order
TodoOrders ==
    {o \in [1..Cardinality(todos) -> todos] :
        /\ \A i, j \in DOMAIN o : i # j => o[i] # o[j]
        /\ \A i, j \in DOMAIN o : i < j => o[i].created_at >= o[j].created_at}

\* TodoRepository.List after its COUNT has given totalCount: LIMIT limit
\* OFFSET offset of the rows in order o; the store refuses a negative OFFSET
TodoList(o, offset, limit, totalCount) ==
    IF offset.neg
    THEN [err |-> "internal", todos |-> <<>>, totalCount |-> 0]
    ELSE IF ~ Less64(offset, Int64(Len(o)))
    THEN [err |-> "nil", todos |-> <<>>, totalCount |-> totalCount]
    ELSE LET first == IntValue(offset) + 1
             end == IntValue(offset) + IntValue(limit)
         IN  [err |-> "nil",
              todos |-> SubSeq(o, first, IF end < Len(o) THEN end ELSE Len(o)),
              totalCount |-> totalCount]

\* TodoService.List with the rows in order o
TodoServiceList(o, page, pageSize, totalCount) ==
    LET p == IF Less64(page, Int64(1)) THEN Int64(1) ELSE page
        ps == IF Less64(pageSize, Int64(1))
                 \/ Less64(Int64(MaxPageSize), pageSize)
              THEN Int64(DefaultPageSize)
              ELSE pageSize
    IN  TodoList(o, Mul64(Sub64(p, Int64(1)), ps), ps, totalCount)

\* TodoHandler.List for the query values pageQ and pageSizeQ; a division by
\* zero panics and gin.Recovery answers 500
TodoListOutcome(o, pageQ, pageSizeQ, totalCount) ==
    LET page == Atoi(DefaultQuery(pageQ, <<"1">>)).n
        pageSize == Atoi(DefaultQuery(pageSizeQ, <<"2", "0">>)).n
        r == TodoServiceList(o, page, pageSize, totalCount)
    IN  IF r.err # "nil"
        THEN [status |-> 500, err |-> "Failed to list todos", data |-> <<>>,
              pagination |-> [page |-> page]]
        ELSE IF pageSize = Int64(0)
        THEN [status |-> 500, err |-> "panic", data |-> <<>>,
              pagination |-> [page |-> page]]
        ELSE [status |-> 200, err |-> "nil", data |-> r.todos,
              pagination |->
                 [page |-> page, page_size |-> pageSize,
                  total_count |-> Int64(r.totalCount),
                  total_pages |->
                     Div64(Sub64(Add64(Int64(r.totalCount), pageSize),
                                 Int64(1)),
                           pageSize)]]

\* CreateTodoRequest binding: title required, 1 to 200 characters,
\* description at most 1000
BindCreateTodoRequest(title, description) ==
    Len(title) \in 1..200 /\ Len(description) <= 1000

\* TodoHandler.Create and TodoService.Create
TodoCreateOutcome(title, description) ==
    IF ~ BindCreateTodoRequest(title, description)
    THEN [status |-> 400, err |-> "binding", todo |-> NoTodo, todos |-> todos]
    ELSE IF Len(Bytes(title)) < 3
    THEN [status |-> 400, err |-> "ErrInvalidInput", todo |-> NoTodo,
          todos |-> todos]
    ELSE [status |-> 201, err |-> "nil",
          todo |-> TodoCreate(title, description),
          todos |-> todos \cup {TodoCreate(title, description)}]

\* the largest id the INTEGER column of the tables can be compared with
math_MaxInt32 == Int64(2147483647)

\* UpdateTodoRequest binding: a title that is given has 1 to 200
\* characters, a description that is given at most 1000
BindUpdateTodoRequest(req) ==
    /\ req.title # Nil => Len(req.title[1]) \in 1..200
    /\ req.description # Nil => Len(req.description[1]) <= 1000

\* TodoHandler.Update, TodoService.Update and TodoRepository.Update
TodoUpdateOutcome(idParam, req) ==
    LET id == Atoi(idParam)
        row == TodoGetByID(IntValue(id.n))
        fail(status, err) ==
            [status |-> status, err |-> err, todo |-> NoTodo, todos |-> todos]
    IN  IF id.err # "nil" THEN fail(400, "Invalid ID format")
        ELSE IF ~ BindUpdateTodoRequest(req) THEN fail(400, "binding")
        ELSE IF ~ Less64(Int64(0), id.n) THEN fail(400, "ErrInvalidInput")
        ELSE IF req.title = Nil /\ req.description = Nil /\ req.completed = Nil
        THEN fail(400, "ErrInvalidInput")
        ELSE IF Less64(math_MaxInt32, id.n) THEN fail(500, "internal")
        ELSE IF row = NoTodo THEN fail(404, "ErrTodoNotFound")
        ELSE [status |-> 200, err |-> "nil", todo |-> TodoUpdate(row, req),
              todos |-> (todos \ {row}) \cup {TodoUpdate(row, req)}]

\* TodoHandler.Get and TodoService.GetByID; the handler has no answer of
\* its own for ErrInvalidInput
TodoGetOutcome(idParam) ==
    LET id == Atoi(idParam)
        row == TodoGetByID(IntValue(id.n))
        fail(status, err) == [status |-> status, err |-> err, todo |-> NoTodo]
    IN  IF id.err # "nil" THEN fail(400, "Invalid ID format")
        ELSE IF ~ Less64(Int64(0), id.n) THEN fail(500, "ErrInvalidInput")
        ELSE IF Less64(math_MaxInt32, id.n) THEN fail(500, "internal")
        ELSE IF row = NoTodo THEN fail(404, "ErrTodoNotFound")
        ELSE [status |-> 200, err |-> "nil", todo |-> row]

\* TodoHandler.Delete, TodoService.Delete and TodoRepository.Delete; the
\* handler has no answer of its own for ErrInvalidInput
TodoDeleteOutcome(idParam) ==
    LET id == Atoi(idParam)
        row == TodoGetByID(IntValue(id.n))
        fail(status, err) == [status |-> status, err |-> err, todos |-> todos]
    IN  IF id.err # "nil" THEN fail(400, "Invalid ID format")
        ELSE IF ~ Less64(Int64(0), id.n) THEN fail(500, "ErrInvalidInput")
        ELSE IF Less64(math_MaxInt32, id.n) THEN fail(500, "internal")
        ELSE IF row = NoTodo THEN fail(404, "ErrTodoNotFound")
        ELSE [status |-> 204, err |-> "nil", todos |-> todos \ {row}]

(* ------------------------------- state --------------------------------- *)

\* users rows: an active administrator and a deactivated account
Alice ==
    [id |-> 1, email |-> AliMail, username |-> Ali,
     password_hash |-> HashPassword(Passw0rd).hash,
     first_name |-> <<>>, last_name |-> <<>>,
     is_active |-> TRUE, is_admin |-> TRUE, last_login_at |-> Null]
Bobby ==
    [id |-> 2, email |-> BobMail, username |-> Bob,
     password_hash |-> HashPassword(Passw0rd).hash,
     first_name |-> <<>>, last_name |-> <<>>,
     is_active |-> FALSE, is_admin |-> FALSE, last_login_at |-> Null]

NoCall ==
    [op |-> "none", req |-> <<>>, err |-> "nil", status |-> 0,
     tokens |-> NoTokens, user |-> NoUser]

\* the access token of the administrator minted in second sec
AccessTokenOfSecond(sec) == GenerateAccessToken(Alice, DateTime(sec))

\* Authorization headers as strings.Split(header, " ") cuts them: the empty
\* header, a lone scheme, another scheme, three parts, and Bearer followed
\* by a minted token, by one signed with another key or by one with alg none
AuthorizationHeaders ==
    {<<"">>, <<"Bearer">>, <<"Basic", AccessTokenOfSecond(0)>>,
     <<"Bearer", "", AccessTokenOfSecond(0)>>}
    \cup {<<"Bearer", AccessTokenOfSecond(sec)>> :
             sec \in 0..NumericDate(MaxNow)}
    \cup {<<"Bearer", [AccessTokenOfSecond(0) EXCEPT !.key = "other"]>>,
          <<"Bearer", [AccessTokenOfSecond(0) EXCEPT !.alg = "none"]>>}

\* a request the middleware let through with no identity
NoIdentity == [ID |-> 0]

\* AuthMiddleware on a request with Authorization header h; the clock reads
\* t1 inside jwt.ParseWithClaims and t2 in the manager's own expiry test
AuthMiddlewareOutcome(h, t1, t2) ==
    LET v == ValidateToken(h[2], t1, t2)
        abort(err, message) ==
            [err |-> err, status |-> 401, message |-> message,
             aborted |-> TRUE, identity |-> NoIdentity]
    IN  IF h = <<"">>
        THEN abort("header", "Authorization header required")
        ELSE IF Len(h) # 2 \/ h[1] # "Bearer"
        THEN abort("header", "Invalid authorization header format")
        ELSE IF v.err = "ErrExpiredToken"
        THEN abort(v.err, "Token has expired")
        ELSE IF v.err # "nil"
        THEN abort(v.err, "Invalid token")
        ELSE [err |-> "nil", status |-> 200, message |-> "",
              aborted |-> FALSE,
              identity |-> [ID |-> v.claims.user_id, Email |-> v.claims.email,
                            Username |-> v.claims.username,
                            IsAdmin |-> v.claims.is_admin]]

\* the goroutines serving requests, the goroutine of the periodic sweep, and
\* a goroutine with no request
Procs == 1..MaxProcs
Sweeper == 0
Idle == [pc |-> "idle", op |-> "none"]
NoCalls == [p \in {Sweeper} \cup Procs |-> Idle]

\* what last happened to the row of each minted token: the handler or
\* statement that removed it, or "rotation" once a RefreshToken call that
\* presented the token has returned a pair ("none": nothing yet)
NeverRevoked == [t \in SignedTokens |-> "none"]

\* the service starts at tick 0 on a database holding the two accounts and
\* no session
Init ==
    /\ users = {Alice, Bobby}
    /\ refresh_tokens = {}
    /\ now = 0
    /\ last = NoCall
    /\ revoked = NeverRevoked
    /\ calls = NoCalls
    /\ todos = NoTodos
    /\ serial = [users |-> Cardinality({Alice, Bobby}), todos |-> 0]

\* what a call leaves for the caller to see
Result(op, req, o, status) ==
    [op |-> op, req |-> req, err |-> o.err, status |-> status,
     tokens |-> o.tokens, user |-> o.user]

\* revoked, with the tokens of the set toks marked as removed by cause
Mark(toks, cause) ==
    [t \in SignedTokens |-> IF t \in toks THEN cause ELSE revoked[t]]

\* the token strings whose row a call removed
Removed(o) == TokensOf(refresh_tokens) \ TokensOf(o.refresh_tokens)

\* goroutine p serves no request
Free(p) == calls[p].pc \in {"idle", "done"}

\* the answer of a handler: it stays with the goroutine, with the statement
\* the handler returned at
Response(op, req, err, status, tokens, user, at) ==
    [pc |-> "done", op |-> op, req |-> req, err |-> err, status |-> status,
     tokens |-> tokens, user |-> user, at |-> at]

(* ---------------------------- registration ------------------------------ *)

\* the UNIQUE constraints on users.email and users.username let the INSERT
\* of UserRepository.Create through
UserIsFree(email, username) ==
    ~ \E x \in users : x.email = email \/ x.username = username

\* the Register calls between two store statements
Registering ==
    {p \in Procs : calls[p].pc \in {"RegisterExistsByEmail",
                                    "RegisterExistsByUsername",
                                    "RegisterCreate"}}

\* goroutine p returns from AuthHandler.Register
RegisterReturn(p, err, user) ==
    calls' = [calls EXCEPT ![p] =
                Response("Register", calls[p].req, err, RegisterStatus(err),
                         NoTokens, user, calls[p].pc)]

\* goroutine p takes a POST /auth/register: binding, password strength and
\* normalization touch no shared state.  A call is taken while the users id
\* sequence has a value left for it.
RegisterBegin(p, email, username, pw, firstName, lastName) ==
    /\ Free(p)
    /\ serial.users + Cardinality(Registering) < MaxUsers
    /\ LET req == [email |-> email, username |-> username, password |-> pw,
                   first_name |-> firstName, last_name |-> lastName]
       IN  calls' = [calls EXCEPT ![p] =
               IF ~ BindCreateUserRequest(email, username, pw, firstName,
                                         lastName)
               THEN Response("Register", req, "binding", 400, NoTokens,
                             NoUser, "ShouldBindJSON")
               ELSE IF ValidatePasswordStrength(pw) # "nil"
               THEN Response("Register", req, "ErrInvalidInput",
                             RegisterStatus("ErrInvalidInput"), NoTokens,
                             NoUser, "ValidatePasswordStrength")
               ELSE [pc |-> "RegisterExistsByEmail", op |-> "Register",
                     req |-> req]]
    /\ UNCHANGED <<users, refresh_tokens, now, last, revoked, todos, serial>>

\* goroutine p runs the ExistsByEmail query
RegisterExistsByEmail(p) ==
    /\ calls[p].pc = "RegisterExistsByEmail"
    /\ IF ExistsByEmail(NormalizeEmail(calls[p].req.email))
       THEN RegisterReturn(p, "ErrEmailExists", NoUser)
       ELSE calls' = [calls EXCEPT ![p].pc = "RegisterExistsByUsername"]
    /\ UNCHANGED <<users, refresh_tokens, now, last, revoked, todos, serial>>

\* an ExistsByUsername query that comes after the INSERT: the row is
\* written before the username is found taken
RegisterUsernameAfterInsert(p) ==
    /\ calls[p].pc = "RegisterExistsByUsername"
    /\ LET e == NormalizeEmail(calls[p].req.email)
           u == NormalizeUsername(calls[p].req.username)
           user == [id |-> NextUserID, email |-> e, username |-> u,
                    password_hash |-> HashPassword(calls[p].req.password).hash,
                    first_name |-> TrimSpace(calls[p].req.first_name),
                    last_name |-> TrimSpace(calls[p].req.last_name),
                    is_active |-> TRUE, is_admin |-> FALSE,
                    last_login_at |-> Null]
       IN  IF ExistsByUsername(u)
           THEN /\ users' = users \cup {user}
                /\ serial' = DrawUserID
                /\ RegisterReturn(p, "ErrUsernameExists", NoUser)
           ELSE /\ UNCHANGED <<users, serial>>
                /\ calls' = [calls EXCEPT ![p].pc = "RegisterCreate"]
    /\ UNCHANGED <<refresh_tokens, now, last, revoked, todos>>

\* goroutine p runs the ExistsByUsername query
RegisterExistsByUsername(p) ==
    /\ calls[p].pc = "RegisterExistsByUsername"
    /\ IF ExistsByUsername(NormalizeUsername(calls[p].req.username))
       THEN RegisterReturn(p, "ErrUsernameExists", NoUser)
       ELSE calls' = [calls EXCEPT ![p].pc = "RegisterCreate"]
    /\ UNCHANGED <<users, refresh_tokens, now, last, revoked, todos, serial>>

\* goroutine p hashes the password and runs the INSERT of
\* UserRepository.Create; the INSERT draws the id from the sequence before
\* the UNIQUE constraints are tested, and a violated one comes back as a
\* wrapped driver error
RegisterCreate(p, f) ==
    /\ calls[p].pc = "RegisterCreate"
    /\ LET e == NormalizeEmail(calls[p].req.email)
           u == NormalizeUsername(calls[p].req.username)
           h == HashPassword(calls[p].req.password)
           user == [id |-> NextUserID, email |-> e, username |-> u,
                    password_hash |-> h.hash,
                    first_name |-> TrimSpace(calls[p].req.first_name),
                    last_name |-> TrimSpace(calls[p].req.last_name),
                    is_active |-> TRUE, is_admin |-> FALSE,
                    last_login_at |-> Null]
       IN  IF h.err # "nil"
           THEN /\ UNCHANGED <<users, serial>>
                /\ RegisterReturn(p, "internal", NoUser)
           ELSE /\ serial' = DrawUserID
                /\ IF f = "none" /\ UserIsFree(e, u)
                   THEN /\ users' = users \cup {user}
                        /\ RegisterReturn(p, "nil", ToResponse(user))
                   ELSE /\ users' = users
                        /\ RegisterReturn(p, "internal", NoUser)
    /\ UNCHANGED <<refresh_tokens, now, last, revoked, todos>>

\* the statements of a Register call of goroutine p, on a store with the
\* failures F
RegisterSteps(p, F) ==
    \/ RegisterExistsByEmail(p)
    \/ RegisterExistsByUsername(p)
    \/ \E f \in F : RegisterCreate(p, f)

(* -------------------------------- login --------------------------------- *)

\* goroutine p returns from AuthHandler.Login
LoginReturn(p, err, tokens) ==
    calls' = [calls EXCEPT ![p] =
                Response("Login", calls[p].req, err, LoginStatus(err), tokens,
                         NoUser, calls[p].pc)]

\* goroutine p takes a POST /auth/login, reads the user row and checks the
\* password against it
LoginBegin(p, ident, pw) ==
    /\ Free(p)
    /\ LET req == [username |-> ident, password |-> pw]
           user == LoginUser(ident)
           refused(err, at) ==
               Response("Login", req, err, LoginStatus(err), NoTokens, NoUser,
                        at)
       IN  calls' = [calls EXCEPT ![p] =
               IF ~ BindLoginRequest(ident, pw)
               THEN Response("Login", req, "binding", 400, NoTokens, NoUser,
                             "ShouldBindJSON")
               ELSE IF user.id = 0
               THEN refused("ErrInvalidCredentials", "GetUser")
               ELSE IF ~ user.is_active
               THEN refused("ErrUserNotActive", "IsActive")
               ELSE IF CheckPassword(pw, user.password_hash) # "nil"
               THEN refused("ErrInvalidCredentials", "CheckPassword")
               ELSE [pc |-> "LoginGenerateAccessToken", op |-> "Login",
                     req |-> req, user |-> user]]
    /\ UNCHANGED <<users, refresh_tokens, now, last, revoked, todos, serial>>

\* goroutine p mints the access token
LoginGenerateAccessToken(p) ==
    /\ calls[p].pc = "LoginGenerateAccessToken"
    /\ calls' = [calls EXCEPT ![p] =
                   [pc |-> "LoginGenerateRefreshToken", op |-> "Login",
                    req |-> calls[p].req, user |-> calls[p].user,
                    accessToken |-> GenerateAccessToken(calls[p].user, now)]]
    /\ UNCHANGED <<users, refresh_tokens, now, last, revoked, todos, serial>>

\* goroutine p mints the refresh token
LoginGenerateRefreshToken(p) ==
    /\ calls[p].pc = "LoginGenerateRefreshToken"
    /\ calls' = [calls EXCEPT ![p] =
                   [pc |-> "LoginSaveRefreshToken", op |-> "Login",
                    req |-> calls[p].req, user |-> calls[p].user,
                    accessToken |-> calls[p].accessToken,
                    refreshToken |-> GenerateRefreshToken(now).token,
                    expiresAt |-> GenerateRefreshToken(now).expiresAt]]
    /\ UNCHANGED <<users, refresh_tokens, now, last, revoked, todos, serial>>

\* goroutine p runs the INSERT of the session row
LoginSaveRefreshToken(p, f) ==
    /\ calls[p].pc = "LoginSaveRefreshToken"
    /\ IF f = "save" \/ ~ TokenIsFree(refresh_tokens, calls[p].refreshToken)
       THEN /\ refresh_tokens' = refresh_tokens
            /\ LoginReturn(p, "internal", NoTokens)
       ELSE /\ refresh_tokens' =
                  SaveRefreshToken(refresh_tokens, calls[p].user.id,
                                   calls[p].refreshToken, calls[p].expiresAt)
            /\ calls' = [calls EXCEPT ![p].pc = "LoginUpdateLastLoginNow"]
    /\ UNCHANGED <<users, now, last, revoked, todos, serial>>

\* goroutine p enters UserRepository.UpdateLastLogin, which reads the clock
\* for the argument of its statement
LoginUpdateLastLoginNow(p) ==
    /\ calls[p].pc = "LoginUpdateLastLoginNow"
    /\ calls' = [calls EXCEPT ![p] =
                   [pc |-> "LoginUpdateLastLogin", op |-> "Login",
                    req |-> calls[p].req, user |-> calls[p].user,
                    accessToken |-> calls[p].accessToken,
                    refreshToken |-> calls[p].refreshToken,
                    lastLoginAt |-> now]]
    /\ UNCHANGED <<users, refresh_tokens, now, last, revoked, todos, serial>>

\* goroutine p runs the UPDATE of last_login_at, whose error is dropped, and
\* returns the token pair
LoginUpdateLastLogin(p, f) ==
    /\ calls[p].pc = "LoginUpdateLastLogin"
    /\ users' = IF f = "lastlogin" THEN users
                ELSE UpdateLastLogin(users, calls[p].user.id,
                                     calls[p].lastLoginAt)
    /\ LoginReturn(p, "nil",
                   TokenResponse(calls[p].accessToken, calls[p].refreshToken))
    /\ UNCHANGED <<refresh_tokens, now, last, revoked, todos, serial>>

\* the clock reads and statements of a Login call of goroutine p, on a
\* store with the failures F
LoginSteps(p, F) ==
    \/ LoginGenerateAccessToken(p)
    \/ LoginGenerateRefreshToken(p)
    \/ \E f \in F : LoginSaveRefreshToken(p, f)
    \/ LoginUpdateLastLoginNow(p)
    \/ \E f \in F : LoginUpdateLastLogin(p, f)

(* ------------------------------- rotation ------------------------------- *)

\* goroutine p returns from AuthHandler.RefreshToken
RefreshReturn(p, err, tokens) ==
    calls' = [calls EXCEPT ![p] =
                [pc |-> "done", op |-> "RefreshToken", req |-> calls[p].req,
                 err |-> err, status |-> RefreshStatus(err),
                 tokens |-> tokens, user |-> NoUser, at |-> calls[p].pc,
                 overlap |-> calls[p].overlap]]

\* another goroutine holds the row of token tok: its lookup has returned
\* the row and its DELETE has not run yet
HeldByAnother(p, tok) ==
    \E q \in Procs \ {p} :
       /\ calls[q].pc \in {"RefreshGetByID", "RefreshGenerateAccessToken",
                           "RefreshDeleteRefreshToken"}
       /\ calls[q].req.refresh_token = tok

\* goroutine p takes a POST /auth/refresh and jwt.ParseWithClaims checks
\* the token's signature and expiry claim
RefreshBegin(p, tok) ==
    /\ Free(p)
    /\ calls' = [calls EXCEPT ![p] =
          IF ValidateRefreshToken(tok, now, now) # "nil"
          THEN [pc |-> "done", op |-> "RefreshToken",
                req |-> [refresh_token |-> tok],
                err |-> "ErrInvalidRefreshToken",
                status |-> RefreshStatus("ErrInvalidRefreshToken"),
                tokens |-> NoTokens, user |-> NoUser,
                at |-> "ParseWithClaims", overlap |-> FALSE]
          ELSE [pc |-> "RefreshValidateRefreshToken", op |-> "RefreshToken",
                req |-> [refresh_token |-> tok],
                parsed |-> now, overlap |-> FALSE]]
    /\ UNCHANGED <<users, refresh_tokens, now, last, revoked, todos, serial>>

\* goroutine p reads the clock again for the expiry test of
\* JWTManager.ValidateRefreshToken
RefreshValidateRefreshToken(p) ==
    /\ calls[p].pc = "RefreshValidateRefreshToken"
    /\ IF ValidateRefreshToken(calls[p].req.refresh_token,
                               calls[p].parsed, now) # "nil"
       THEN RefreshReturn(p, "ErrInvalidRefreshToken", NoTokens)
       ELSE calls' = [calls EXCEPT ![p] =
                        [pc |-> "RefreshGetRefreshTokenNow",
                         op |-> "RefreshToken", req |-> calls[p].req,
                         overlap |-> FALSE]]
    /\ UNCHANGED <<users, refresh_tokens, now, last, revoked, todos, serial>>

\* goroutine p enters UserRepository.GetRefreshToken, which reads the clock
\* for the argument of its statement
RefreshGetRefreshTokenNow(p) ==
    /\ calls[p].pc = "RefreshGetRefreshTokenNow"
    /\ calls' = [calls EXCEPT ![p] =
                   [pc |-> "RefreshGetRefreshToken", op |-> "RefreshToken",
                    req |-> calls[p].req, observed |-> now,
                    overlap |-> FALSE]]
    /\ UNCHANGED <<users, refresh_tokens, now, last, revoked, todos, serial>>

\* goroutine p runs the SELECT of UserRepository.GetRefreshToken
RefreshGetRefreshToken(p) ==
    /\ calls[p].pc = "RefreshGetRefreshToken"
    /\ LET tok == calls[p].req.refresh_token
           row == GetRefreshToken(refresh_tokens, tok, calls[p].observed)
       IN  IF row = NoRow
           THEN RefreshReturn(p, "ErrInvalidRefreshToken", NoTokens)
           ELSE calls' = [calls EXCEPT ![p] =
                            [pc |-> "RefreshGetByID", op |-> "RefreshToken",
                             req |-> calls[p].req, row |-> row,
                             overlap |-> HeldByAnother(p, tok)]]
    /\ UNCHANGED <<users, refresh_tokens, now, last, revoked, todos, serial>>

\* goroutine p reads the owner of the row
RefreshGetByID(p) ==
    /\ calls[p].pc = "RefreshGetByID"
    /\ LET user == GetByID(calls[p].row.user_id)
       IN  IF OwnerRefused(user)
           THEN RefreshReturn(p, "ErrInvalidRefreshToken", NoTokens)
           ELSE calls' = [calls EXCEPT ![p] =
                            [pc |-> "RefreshGenerateAccessToken",
                             op |-> "RefreshToken", req |-> calls[p].req,
                             row |-> calls[p].row, user |-> user,
                             overlap |-> calls[p].overlap]]
    /\ UNCHANGED <<users, refresh_tokens, now, last, revoked, todos, serial>>

\* goroutine p mints the access token
RefreshGenerateAccessToken(p) ==
    /\ calls[p].pc = "RefreshGenerateAccessToken"
    /\ calls' = [calls EXCEPT ![p] =
                   [pc |-> "RefreshDeleteRefreshToken", op |-> "RefreshToken",
                    req |-> calls[p].req, row |-> calls[p].row,
                    user |-> calls[p].user,
                    accessToken |-> GenerateAccessToken(calls[p].user, now),
                    overlap |-> calls[p].overlap]]
    /\ UNCHANGED <<users, refresh_tokens, now, last, revoked, todos, serial>>

\* goroutine p runs the DELETE of the presented token, whose error is
\* dropped
RefreshDeleteRefreshToken(p, f) ==
    /\ calls[p].pc = "RefreshDeleteRefreshToken"
    /\ refresh_tokens' =
          IF f = "delete" THEN refresh_tokens
          ELSE DeleteRefreshToken(refresh_tokens, calls[p].req.refresh_token)
    /\ revoked' = Mark(TokensOf(refresh_tokens) \ TokensOf(refresh_tokens'),
                       "DeleteRefreshToken")
    /\ calls' = [calls EXCEPT ![p].pc = "RefreshGenerateRefreshToken"]
    /\ UNCHANGED <<users, now, last, todos, serial>>

\* goroutine p mints the new refresh token
RefreshGenerateRefreshToken(p) ==
    /\ calls[p].pc = "RefreshGenerateRefreshToken"
    /\ calls' = [calls EXCEPT ![p] =
                   [pc |-> "RefreshSaveRefreshToken", op |-> "RefreshToken",
                    req |-> calls[p].req, row |-> calls[p].row,
                    user |-> calls[p].user,
                    accessToken |-> calls[p].accessToken,
                    refreshToken |-> GenerateRefreshToken(now).token,
                    expiresAt |-> GenerateRefreshToken(now).expiresAt,
                    overlap |-> calls[p].overlap]]
    /\ UNCHANGED <<users, refresh_tokens, now, last, revoked, todos, serial>>

\* an INSERT of the new row that goes through only while the row of the
\* presented token is gone and no other goroutine holds it
RefreshSaveOutcomeOncePerToken(rows, p, f) ==
    IF f # "save" /\ TokenIsFree(rows, calls[p].refreshToken)
       /\ ~ calls[p].overlap
    THEN [err |-> "nil",
          tokens |-> TokenResponse(calls[p].accessToken,
                                   calls[p].refreshToken),
          refresh_tokens |-> SaveRefreshToken(rows, calls[p].user.id,
                                              calls[p].refreshToken,
                                              calls[p].expiresAt)]
    ELSE [err |-> "internal", tokens |-> NoTokens, refresh_tokens |-> rows]

\* what the last statement of RefreshToken does for goroutine p: the row of
\* the minted token is inserted; the UNIQUE constraint on
\* refresh_tokens.token refuses a string that is stored already
RefreshSaveOutcome(rows, p, f) ==
    IF f # "save" /\ TokenIsFree(rows, calls[p].refreshToken)
    THEN [err |-> "nil",
          tokens |-> TokenResponse(calls[p].accessToken,
                                   calls[p].refreshToken),
          refresh_tokens |-> SaveRefreshToken(rows, calls[p].user.id,
                                              calls[p].refreshToken,
                                              calls[p].expiresAt)]
    ELSE [err |-> "internal", tokens |-> NoTokens, refresh_tokens |-> rows]

\* goroutine p runs the INSERT of the new row and returns; with the pair
\* returned, the presented token has been rotated
RefreshSaveRefreshToken(p, f) ==
    /\ calls[p].pc = "RefreshSaveRefreshToken"
    /\ LET o == RefreshSaveOutcome(refresh_tokens, p, f)
       IN  /\ refresh_tokens' = o.refresh_tokens
           /\ RefreshReturn(p, o.err, o.tokens)
           /\ revoked' = IF o.err = "nil"
                         THEN Mark({calls[p].req.refresh_token}, "rotation")
                         ELSE revoked
    /\ UNCHANGED <<users, now, last, todos, serial>>

\* the clock reads and statements of a RefreshToken call of goroutine p, on
\* a store with the failures F
RefreshSteps(p, F) ==
    \/ RefreshValidateRefreshToken(p)
    \/ RefreshGetRefreshTokenNow(p)
    \/ RefreshGetRefreshToken(p)
    \/ RefreshGetByID(p)
    \/ RefreshGenerateAccessToken(p)
    \/ \E f \in F : RefreshDeleteRefreshToken(p, f)
    \/ RefreshGenerateRefreshToken(p)
    \/ \E f \in F : RefreshSaveRefreshToken(p, f)

(* ------------------------ logout and the sweep -------------------------- *)

\* POST /auth/logout
Logout(tok, f) ==
    LET o == LogoutOutcome(tok, f)
    IN  /\ refresh_tokens' = o.refresh_tokens
        /\ last' = Result("Logout", [refresh_token |-> tok],
                          o, LogoutStatus(o.err))
        /\ revoked' = Mark(Removed(o), "Logout")
        /\ UNCHANGED <<users, now, calls, todos, serial>>

\* POST /auth/logout-all, for the user the access token names
LogoutAll(userID, f) ==
    LET o == LogoutAllOutcome(userID, f)
    IN  /\ refresh_tokens' = o.refresh_tokens
        /\ last' = Result("LogoutAll", [user_id |-> userID],
                          o, LogoutStatus(o.err))
        /\ revoked' = Mark(Removed(o), "LogoutAll")
        /\ UNCHANGED <<users, now, calls, todos, serial>>

\* the goroutine of the periodic sweep enters
\* UserRepository.DeleteExpiredRefreshTokens, which reads the clock for the
\* argument of its statement
CleanupExpiredTokensNow ==
    /\ Free(Sweeper)
    /\ calls' = [calls EXCEPT ![Sweeper] =
                   [pc |-> "DeleteExpiredRefreshTokens",
                    op |-> "CleanupExpiredTokens", observed |-> now]]
    /\ UNCHANGED <<users, refresh_tokens, now, last, revoked, todos, serial>>

\* the goroutine of the periodic sweep runs the DELETE
CleanupExpiredTokens(f) ==
    /\ calls[Sweeper].pc = "DeleteExpiredRefreshTokens"
    /\ refresh_tokens' =
          IF f = "delete" THEN refresh_tokens
          ELSE DeleteExpiredRefreshTokens(refresh_tokens,
                                          calls[Sweeper].observed)
    /\ revoked' = Mark(TokensOf(refresh_tokens) \ TokensOf(refresh_tokens'),
                       "sweep")
    /\ calls' = [calls EXCEPT ![Sweeper] =
                   [pc |-> "done", op |-> "CleanupExpiredTokens",
                    observed |-> calls[Sweeper].observed,
                    err |-> IF f = "delete" THEN "internal" ELSE "nil"]]
    /\ UNCHANGED <<users, now, last, todos, serial>>

\* the administration of the database sets the is_active column of a user
SetActive(userID, active) ==
    /\ users' = {IF u.id = userID THEN [u EXCEPT !.is_active = active] ELSE u :
                    u \in users}
    /\ last' = [NoCall EXCEPT !.op = "SetActive",
                              !.req = [user_id |-> userID, active |-> active]]
    /\ UNCHANGED <<refresh_tokens, now, revoked, calls, todos, serial>>

\* a request to a protected route passes AuthMiddleware; the clock may
\* advance by d ticks between the two readings of the call
AuthMiddleware(h, d) ==
    LET o == AuthMiddlewareOutcome(h, now, now + d)
    IN  /\ now + d <= MaxNow
        /\ now' = now + d
        /\ last' = [op |-> "AuthMiddleware", req |-> [header |-> h, t1 |-> now],
                    err |-> o.err, status |-> o.status, tokens |-> NoTokens,
                    user |-> NoUser, message |-> o.message,
                    aborted |-> o.aborted, identity |-> o.identity]
        /\ UNCHANGED <<users, refresh_tokens, revoked, calls, todos, serial>>

\* the clock advances
Tick ==
    /\ now < MaxNow
    /\ now' = now + 1
    /\ UNCHANGED <<users, refresh_tokens, last, revoked, calls, todos, serial>>

\* the clock advances while the todo routes are exercised, while Login
\* calls race and while sessions are rotated
TodoTick == now < MaxTodoNow /\ Tick
LoginTick == now < MaxTodoNow /\ Tick
RaceTick == now < MaxRaceNow /\ Tick

(* --------------------------- specifications ----------------------------- *)

\* the session lifecycle on a working store: one goroutine serves the
\* logins and the rotations while logouts run between its clock reads and
\* statements
Next ==
    \/ LoginBegin(1, <<VT,"A","L","I",NEL>>, Passw0rd)
    \/ LoginSteps(1, {"none"})
    \/ \E t \in RefreshTokenInputs : RefreshBegin(1, t)
    \/ RefreshSteps(1, {"none"})
    \/ \E t \in SignedTokens : Logout(t, "none")
    \/ \E u \in {Alice.id, Bobby.id} : LogoutAll(u, "none")
    \/ RaceTick

Spec == Init /\ [][Next]_vars

\* registration and the logins that follow it, within one tick; the store
\* may fail the INSERT of a user or session row and the last-login UPDATE
NextRegister ==
    \/ \E e \in EmailInputs, u \in UsernameInputs, pw \in PasswordInputs,
          n \in NameInputs :
          RegisterBegin(1, e, u, pw, n[1], n[2])
    \/ RegisterSteps(1, RegisterFaults)
    \/ \E i \in LoginInputs, pw \in LoginPasswords : LoginBegin(1, i, pw)
    \/ LoginSteps(1, LoginFaults)

SpecRegister == Init /\ [][NextRegister]_vars

\* passwords for the strength rules: one per unmet rule, one that meets
\* none of the last three, one of six characters in nine bytes, one whose
\* only capital letter is outside ASCII
StrengthInputs ==
    {Passw0rd, password,
     <<"P","w","0">>,
     <<"p","a","s","s","w","o","r">>,
     <<"P","A","S","S","W","0","R","D">>,
     <<"P","a","s","s","w","o","r","d">>,
     <<"P","A","S","S","W","O","R","D">>,
     <<"A","a","1",EAcute,EAcute,EAcute>>,
     <<CapitalEAcute,"a","b","c","d","e","f","1">>}

\* a password of n characters that starts with Passw0rd and ends with c
LongPassword(n, c) ==
    [i \in 1..n |-> IF i <= 8 THEN Passw0rd[i] ELSE IF i = n THEN c ELSE "x"]

\* passwords for hashing: two of eight characters, one that repeats another
\* after a NUL, and three of 72 and 73 characters with a common start
HashInputs ==
    {Passw0rd, Wr0ngPwd, Passw0rd \o <<NUL>> \o Passw0rd,
     LongPassword(72, "x"), LongPassword(73, "x"), LongPassword(73, "y")}

\* ValidatePasswordStrength is applied to a password
ValidatePassword(p) ==
    /\ last' = [NoCall EXCEPT !.op = "ValidatePasswordStrength",
                              !.req = [password |-> p],
                              !.err = ValidatePasswordStrength(p)]
    /\ UNCHANGED <<users, refresh_tokens, now, revoked, calls, todos, serial>>

\* password p is hashed and password q is checked against the hash
HashAndCheck(p, q, build) ==
    LET h == HashPasswordIn(p, build)
    IN  /\ last' = [NoCall EXCEPT
                      !.op = "CheckPassword",
                      !.req = [password |-> p, candidate |-> q,
                               build |-> build, hashed |-> h.err],
                      !.err = IF h.err = "nil" THEN CheckPassword(q, h.hash)
                              ELSE "not hashed"]
        /\ UNCHANGED <<users, refresh_tokens, now, revoked, calls, todos, serial>>

\* the password manager on its own, and Register with the same passwords
NextPassword ==
    \/ \E p \in StrengthInputs : ValidatePassword(p)
    \/ \E p \in StrengthInputs \cup {LongPassword(73, "x")} :
          RegisterBegin(1, CatMail, Cat, p, <<>>, <<>>)
    \/ RegisterSteps(1, {"none"})
    \/ \E p \in HashInputs, q \in HashInputs, b \in BcryptBuilds :
          HashAndCheck(p, q, b)

SpecPassword == Init /\ [][NextPassword]_vars

\* sessions of two accounts that the administration activates and
\* deactivates while they are open
NextOwner ==
    \/ \E i \in {Ali, Bob} : LoginBegin(1, i, Passw0rd)
    \/ LoginSteps(1, {"none"})
    \/ \E t \in SignedTokens : RefreshBegin(1, t)
    \/ RefreshSteps(1, {"none"})
    \/ \E u \in {Alice.id, Bobby.id}, b \in BOOLEAN : SetActive(u, b)
    \/ RaceTick

SpecOwner == Init /\ [][NextOwner]_vars

\* protected routes: sessions are opened and closed while requests carrying
\* access tokens pass the middleware
NextAccess ==
    \/ LoginBegin(1, Ali, Passw0rd)
    \/ LoginSteps(1, {"none"})
    \/ Logout(TokenOfSecond(0), "none")
    \/ LogoutAll(Alice.id, "none")
    \/ \E h \in AuthorizationHeaders, d \in 0..MaxDelay : AuthMiddleware(h, d)
    \/ Tick

SpecAccess == Init /\ [][NextAccess]_vars

\* the session lifecycle of one account on a store whose statements may
\* fail: the INSERT of a session row, the last-login UPDATE, the DELETE of
\* the rotated row
NextFaults ==
    \/ LoginBegin(1, Ali, Passw0rd)
    \/ LoginSteps(1, LoginFaults)
    \/ \E t \in SignedTokens : RefreshBegin(1, t)
    \/ RefreshSteps(1, RefreshFaults)
    \/ Tick

SpecFaults == Init /\ [][NextFaults]_vars

(* ---------------------------- todo routes ------------------------------- *)

\* titles of request bodies: two the service accepts, one it finds too
\* short, one the binding refuses
Buy == <<"B","u","y">>
TodoTitles == {Buy, <<"a","b">>, <<>>}

\* bodies of PUT /todos/:id: nothing, a new title, completed set or
\* cleared, and an empty title, which the binding refuses
UpdateTodoRequests ==
    ({[title |-> t, description |-> Nil, completed |-> c] :
         t \in {Nil, Ptr(<<"G","e","t">>)},
         c \in {Nil, Ptr(TRUE), Ptr(FALSE)}}
     \ {[title |-> Ptr(<<"G","e","t">>), description |-> Nil,
          completed |-> Ptr(FALSE)]})
    \cup {[title |-> Ptr(<<>>), description |-> Nil, completed |-> Ptr(TRUE)]}

\* a decimal number above every int, alone and before a letter, and one
\* above every INTEGER of the store
Nines == [i \in 1..20 |-> "9"]
ThreeBillion == <<"3">> \o [i \in 1..9 |-> "0"]

\* values of the :id path parameter
TodoIDParams == {<<"1">>, <<"3">>, <<"0">>, <<"x">>, Nines, ThreeBillion}

\* values of the page and page_size query keys
PageQueries ==
    {Nil, Ptr(<<"2">>), Ptr(<<"0">>), Ptr(Nines), Ptr(Nines \o <<"x">>)}
PageSizeQueries ==
    {Nil, Ptr(<<"1">>), Ptr(<<"2">>), Ptr(<<"1","0","1">>), Ptr(<<"-","1">>),
     Ptr(<<>>)}

\* POST /todos
CreateTodo(title, description) ==
    LET o == TodoCreateOutcome(title, description)
    IN  /\ o.status = 201 => NextTodoID <= MaxTodos
        /\ todos' = o.todos
        /\ serial' = IF o.status = 201
                     THEN [serial EXCEPT !.todos = NextTodoID] ELSE serial
        /\ last' = [NoCall EXCEPT
                      !.op = "CreateTodo",
                      !.req = [title |-> title, description |-> description],
                      !.err = o.err, !.status = o.status, !.user = o.todo]
        /\ UNCHANGED <<users, refresh_tokens, now, revoked, calls>>

\* PUT /todos/:id
UpdateTodo(idParam, req) ==
    LET o == TodoUpdateOutcome(idParam, req)
    IN  /\ todos' = o.todos
        /\ last' = [NoCall EXCEPT
                      !.op = "UpdateTodo",
                      !.req = [id |-> idParam, body |-> req],
                      !.err = o.err, !.status = o.status, !.user = o.todo]
        /\ UNCHANGED <<users, refresh_tokens, now, revoked, calls, serial>>

\* GET /todos/:id
GetTodo(idParam) ==
    LET o == TodoGetOutcome(idParam)
    IN  /\ last' = [NoCall EXCEPT
                      !.op = "GetTodo", !.req = [id |-> idParam],
                      !.err = o.err, !.status = o.status, !.user = o.todo]
        /\ UNCHANGED <<users, refresh_tokens, now, revoked, calls, todos,
                       serial>>

\* DELETE /todos/:id
DeleteTodo(idParam) ==
    LET o == TodoDeleteOutcome(idParam)
    IN  /\ todos' = o.todos
        /\ last' = [NoCall EXCEPT
                      !.op = "DeleteTodo", !.req = [id |-> idParam],
                      !.err = o.err, !.status = o.status]
        /\ UNCHANGED <<users, refresh_tokens, now, revoked, calls, serial>>

\* GET /todos?page=..&page_size=..: goroutine p runs the SELECT COUNT(*) of
\* TodoRepository.List
ListTodosCount(p, pageQ, pageSizeQ) ==
    /\ calls[p].pc \in {"idle", "done"}
    /\ calls' = [calls EXCEPT ![p] =
                   [pc |-> "List", op |-> "ListTodos",
                    req |-> [page |-> pageQ, page_size |-> pageSizeQ],
                    totalCount |-> Cardinality(todos)]]
    /\ UNCHANGED <<users, refresh_tokens, now, last, revoked, todos, serial>>

\* goroutine p runs the SELECT of the rows and the handler answers
ListTodosSelect(p) ==
    /\ calls[p].pc = "List"
    /\ \E o \in TodoOrders :
          LET r == TodoListOutcome(o, calls[p].req.page,
                                   calls[p].req.page_size,
                                   calls[p].totalCount)
          IN  last' = [op |-> "ListTodos", req |-> calls[p].req,
                       err |-> r.err, status |-> r.status,
                       tokens |-> NoTokens, user |-> NoUser,
                       data |-> r.data, pagination |-> r.pagination]
    /\ calls' = [calls EXCEPT ![p] = Idle]
    /\ UNCHANGED <<users, refresh_tokens, now, revoked, todos, serial>>

\* the routes that write the todos table, while the clock runs
NextTodos ==
    \/ \E t \in TodoTitles : CreateTodo(t, <<>>)
    \/ \E i \in TodoIDParams, r \in UpdateTodoRequests : UpdateTodo(i, r)
    \/ \E i \in TodoIDParams : GetTodo(i)
    \/ \E i \in TodoIDParams : DeleteTodo(i)
    \/ TodoTick

SpecTodos == Init /\ [][NextTodos]_vars

\* one listing at a time, with rows created and deleted between its two
\* statements
NextListing ==
    \/ CreateTodo(Buy, <<>>)
    \/ \E i \in {<<"1">>, <<"2">>} : DeleteTodo(i)
    \/ \E p \in PageQueries, s \in PageSizeQueries : ListTodosCount(1, p, s)
    \/ ListTodosSelect(1)
    \/ TodoTick

SpecListing == Init /\ [][NextListing]_vars

(* ----------------------- concurrent registration ------------------------ *)

Dan == <<"d","a","n">>
DanMail == <<"d","@","x",".","y">>

\* request bodies of the Register calls that run side by side
ConcurrentEmails == {CatMail, <<"C","@","X",".","Y">>, DanMail}
ConcurrentUsernames == {<<" ","C","A","T"," ">>, Dan}

\* Register calls served side by side, interleaved at their store queries
NextConcurrent ==
    \/ \E p \in Procs, e \in ConcurrentEmails, u \in ConcurrentUsernames,
          pw \in {Passw0rd, LongPassword(73, "x")} :
          RegisterBegin(p, e, u, pw, <<>>, <<>>)
    \/ \E p \in Procs : RegisterSteps(p, {"none"})

SpecConcurrent == Init /\ [][NextConcurrent]_vars

(* ------------------------- concurrent sessions -------------------------- *)

\* RefreshToken calls presenting the token of the first second, served side
\* by side with a login, interleaved at their clock reads and statements
NextSessions ==
    \/ LoginBegin(1, Ali, Passw0rd)
    \/ LoginSteps(1, {"none"})
    \/ \E p \in Procs : RefreshBegin(p, TokenOfSecond(0))
    \/ \E p \in Procs : RefreshSteps(p, {"none"})
    \/ RaceTick

SpecSessions == Init /\ [][NextSessions]_vars

\* one goroutine serves logins and rotations while logout, logout-all and
\* the periodic sweep run between its clock reads and statements
NextSweep ==
    \/ LoginBegin(1, Ali, Passw0rd)
    \/ LoginSteps(1, {"none"})
    \/ \E t \in SignedTokens : RefreshBegin(1, t)
    \/ RefreshSteps(1, {"none"})
    \/ Logout(TokenOfSecond(0), "none")
    \/ LogoutAll(Alice.id, "none")
    \/ CleanupExpiredTokensNow
    \/ CleanupExpiredTokens("none")
    \/ Tick

SpecSweep == Init /\ [][NextSweep]_vars

(* -------------------------- concurrent logins --------------------------- *)

\* Login calls served side by side with LogoutAll, interleaved at their
\* clock reads and statements, on a store whose statements may fail
NextLogin ==
    \/ \E p \in Procs, i \in {Ali, Bob, Zed}, pw \in LoginPasswords :
          LoginBegin(p, i, pw)
    \/ \E p \in Procs : LoginSteps(p, LoginFaults)
    \/ LogoutAll(Alice.id, "none")
    \/ LoginTick

SpecLogin == Init /\ [][NextLogin]_vars

(* ------------------------------ accounts ------------------------------- *)

\* a username that passes binding:"required,min=3,max=50" and holds an "@"
CatAt == <<"c","@","t">>

\* request bodies of the Register calls that open new accounts
AccountEmails == {CatMail, DanMail}
AccountUsernames == {<<" ","C","A","T"," ">>, CatAt, Dan}

\* request bodies of the Login calls of the new accounts: their usernames
\* and emails, some in capitals with blanks around
AccountLogins ==
    {Cat, <<" ","C","A","T"," ">>, CatAt, <<" ","C","@","X",".","Y"," ">>,
     Dan, DanMail}

\* registrations on a working store and the logins that follow them
NextAccounts ==
    \/ \E e \in AccountEmails, u \in AccountUsernames :
          RegisterBegin(1, e, u, Passw0rd, <<>>, <<>>)
    \/ RegisterSteps(1, {"none"})
    \/ \E i \in AccountLogins, pw \in LoginPasswords : LoginBegin(1, i, pw)
    \/ LoginSteps(1, {"none"})
    \/ TodoTick

SpecAccounts == Init /\ [][NextAccounts]_vars

(* ------------------------------ claims --------------------------------- *)

\* the row of token t that a lookup holding the clock reading T returns
StoredAt(t, T) == \E r \in refresh_tokens : r.token = t /\ r.expires_at > T

\* token t carries a good signature of an accepted algorithm and its expiry
\* claim lies ahead
CryptoValid(t) ==
    /\ t.alg \in SigningMethodHMAC
    /\ t.key = secretKey
    /\ now < DateTime(t.exp)

\* in this step goroutine p takes a request of handler op
Begins(p, op) == Free(p) /\ calls'[p] # calls[p] /\ calls'[p].op = op

\* in this step goroutine p answers a request of handler op
Returns(p, op) ==
    calls'[p] # calls[p] /\ calls'[p].pc = "done" /\ calls'[p].op = op

\* in this step the SELECT of the valid-token lookup of goroutine p runs
Looks(p) ==
    /\ calls[p].pc = "RefreshGetRefreshToken"
    /\ calls'[p].pc # "RefreshGetRefreshToken"

\* the lookup of goroutine p finds no row and the call is refused
Refused(p) ==
    /\ calls'[p].pc = "done"
    /\ calls'[p].err = "ErrInvalidRefreshToken"
    /\ calls'[p].status = 401
    /\ calls'[p].tokens = NoTokens

\* the statements of a RefreshToken call at which the call holds the row its
\* lookup returned
HoldsRow ==
    {"RefreshGetByID", "RefreshGenerateAccessToken",
     "RefreshDeleteRefreshToken", "RefreshGenerateRefreshToken",
     "RefreshSaveRefreshToken"}

\* in this step a logout handler runs
LogsOut(op) == last'.op = op /\ calls' = calls /\ now' = now

\* C1: after Logout(t) has returned, every later RefreshToken(t) fails with
\* InvalidRefreshToken, whatever happened in between: its lookup finds no
\* row.
C1_LogoutStaysRevoked ==
    [][\A p \in Procs :
         (Looks(p) /\ revoked[calls[p].req.refresh_token] = "Logout")
            => Refused(p)]_vars

\* C2: after LogoutAll(u) has returned, every refresh token that was issued
\* to u before the call fails RefreshToken with InvalidRefreshToken, and the
\* session rows of every other user are left unchanged.
C2_LogoutAllStaysRevoked ==
    [][/\ \A p \in Procs :
             (Looks(p) /\ revoked[calls[p].req.refresh_token] = "LogoutAll")
                => Refused(p)
       /\ LogsOut("LogoutAll")
             => {r \in refresh_tokens' : r.user_id # last'.req.user_id}
                  = {r \in refresh_tokens : r.user_id # last'.req.user_id}]_vars

\* C3: a RefreshToken(t) that returns a token pair returns a refresh token
\* different from t, and every later RefreshToken(t) fails with
\* InvalidRefreshToken.
C3_RotationInvalidatesOld ==
    [][\A p \in Procs :
         /\ (Returns(p, "RefreshToken") /\ calls'[p].err = "nil")
               => calls'[p].tokens.refresh_token
                     # calls'[p].req.refresh_token
         /\ (Looks(p) /\ revoked[calls[p].req.refresh_token] = "rotation")
               => Refused(p)]_vars

\* C4: RefreshToken(t) succeeds exactly when t is cryptographically valid
\* and a row for t is present and unexpired in the session store: the call
\* passes the parsing of the token iff the token is valid at that instant,
\* it passes the lookup iff the row is stored and unexpired at the lookup's
\* clock reading, and a call that passed both returns a token pair.
C4_RefreshSucceedsIffValidAndStored ==
    [][\A p \in Procs :
         /\ Begins(p, "RefreshToken")
               => (calls'[p].pc # "done"
                     <=> CryptoValid(calls'[p].req.refresh_token))
         /\ Looks(p)
               => (calls'[p].pc # "done"
                     <=> StoredAt(calls[p].req.refresh_token,
                                  calls[p].observed))
         /\ (Returns(p, "RefreshToken") /\ calls[p].pc \in HoldsRow
             /\ GetByID(calls[p].row.user_id).is_active)
               => calls'[p].err = "nil"]_vars

\* C5: once the row of a refresh-token string has been deleted, or its
\* expiry has passed, no later RefreshToken accepts that string again.
C5_NeverBackToActive ==
    [][\A p \in Procs :
         /\ (Begins(p, "RefreshToken")
             /\ calls'[p].req.refresh_token \in SignedTokens
             /\ ~ (now < DateTime(calls'[p].req.refresh_token.exp)))
               => Refused(p)
         /\ (Looks(p) /\ revoked[calls[p].req.refresh_token] # "none")
               => Refused(p)]_vars

\* the token strings minted by earlier calls: each has, or had, a row
MintedBefore ==
    TokensOf(refresh_tokens) \cup {t \in SignedTokens : revoked[t] # "none"}

\* C6: every refresh token minted by a Login or RefreshToken call differs
\* from the token minted by every other call, so saving a freshly minted
\* token never fails on a duplicate.
C6_RefreshTokensUnique ==
    [][\A p \in Procs :
         /\ (calls[p].pc = "LoginSaveRefreshToken"
             /\ calls'[p].pc # "LoginSaveRefreshToken")
               => /\ calls[p].refreshToken \notin MintedBefore
                  /\ calls'[p].pc = "LoginUpdateLastLoginNow"
         /\ (calls[p].pc = "RefreshSaveRefreshToken"
             /\ calls'[p].pc # "RefreshSaveRefreshToken")
               => /\ calls[p].refreshToken \notin MintedBefore
                  /\ calls'[p].err = "nil"]_vars

\* the password is the one the account was registered with
PasswordMatches(p, user) == user.password_hash = [bcrypt |-> BcryptKey(p)]

\* C7: for an existing user with isActive = false, Login returns
\* UserNotActive only when the supplied password is correct, and
\* InvalidCredentials when it is wrong.
C7_PasswordBeforeActive ==
    [][\A p \in Procs :
         (/\ Begins(p, "Login")
          /\ LoginUser(calls'[p].req.username).id # 0
          /\ ~ LoginUser(calls'[p].req.username).is_active)
            => /\ calls'[p].pc = "done"
               /\ calls'[p].err =
                     IF PasswordMatches(calls'[p].req.password,
                                        LoginUser(calls'[p].req.username))
                     THEN "ErrUserNotActive"
                     ELSE "ErrInvalidCredentials"]_vars

\* C8: a Login whose identifier matches no user and a Login with a wrong
\* password for an existing user, active or not, both answer
\* InvalidCredentials with status 401, create no session row and leave the
\* users table as it was.
C8_LoginFailuresIndistinguishable ==
    [][\A p \in Procs :
         (/\ Begins(p, "Login")
          /\ \/ LoginUser(calls'[p].req.username).id = 0
             \/ ~ PasswordMatches(calls'[p].req.password,
                                  LoginUser(calls'[p].req.username)))
            => /\ calls'[p].pc = "done"
               /\ calls'[p].err = "ErrInvalidCredentials"
               /\ calls'[p].status = 401
               /\ refresh_tokens' = refresh_tokens
               /\ users' = users]_vars

\* C9: under every interleaving of Login calls, a Login that returns a
\* token pair has stored, before returning, exactly one session row holding
\* the returned refresh token, owned by the authenticated user, with expiry =
\* issue time + refresh lifetime; the response has token type Bearer and
\* expires_in equal to the access-token lifetime in seconds.  A Login whose
\* row is not stored returns an error, no tokens, and stores nothing.
C9_LoginStoresReturnedToken ==
    [][\A p \in Procs :
          /\ (calls[p].pc # "LoginGenerateAccessToken"
              /\ calls'[p].pc = "LoginGenerateAccessToken")
                => /\ calls'[p].user = LoginUser(calls'[p].req.username)
                   /\ calls'[p].user.is_active
                   /\ PasswordMatches(calls'[p].req.password, calls'[p].user)
          /\ (calls[p].pc = "LoginGenerateRefreshToken"
              /\ calls'[p].pc = "LoginSaveRefreshToken")
                => calls'[p].expiresAt = now + RefreshSeconds * TicksPerSecond
          /\ (calls[p].pc = "LoginSaveRefreshToken"
              /\ calls'[p].pc = "LoginUpdateLastLoginNow")
                => /\ TokenIsFree(refresh_tokens, calls[p].refreshToken)
                   /\ refresh_tokens'
                        = refresh_tokens
                          \cup {[user_id |-> calls[p].user.id,
                                 token |-> calls[p].refreshToken,
                                 expires_at |-> calls[p].expiresAt]}
          /\ (calls[p].pc \in {"LoginUpdateLastLoginNow",
                               "LoginUpdateLastLogin"}
              /\ calls'[p] # calls[p])
                => /\ refresh_tokens' = refresh_tokens
                   /\ \/ calls'[p].pc = "done"
                      \/ calls'[p].refreshToken = calls[p].refreshToken
          /\ Returns(p, "Login")
                => IF calls'[p].tokens # NoTokens
                   THEN /\ calls'[p].err = "nil"
                        /\ calls[p].pc = "LoginUpdateLastLogin"
                        /\ calls'[p].tokens.refresh_token
                             = calls[p].refreshToken
                        /\ calls'[p].tokens.access_token.user_id
                             = calls[p].user.id
                        /\ calls'[p].tokens.token_type = "Bearer"
                        /\ calls'[p].tokens.expires_in = AccessSeconds
                   ELSE /\ calls'[p].err # "nil"
                        /\ refresh_tokens' = refresh_tokens]_vars

\* C9 witness: a Login has returned a token pair whose refresh token is
\* stored for the account that logged in, after a Login whose INSERT failed
\* returned an error
C9_Witness ==
    \E p, q \in Procs :
       /\ calls[p].pc = "done"
       /\ calls[p].err = "nil"
       /\ \E r \in refresh_tokens :
             /\ r.token = calls[p].tokens.refresh_token
             /\ r.user_id = calls[p].tokens.access_token.user_id
       /\ calls[q].pc = "done"
       /\ calls[q].err = "internal"

\* the email or username, trimmed and lower-cased, is the one of a user row
EmailTaken(e) == \E x \in users : x.email = ToLower(TrimSpace(e))
UsernameTaken(u) == \E x \in users : x.username = ToLower(TrimSpace(u))

\* C10 as claimed: a Register whose normalized email is registered is
\* rejected with EmailExists, one whose normalized username is registered is
\* rejected with UsernameExists, and neither creates or changes a user row.
C10_DuplicateRejected_Original ==
    [][\A p \in Procs :
         Returns(p, "Register")
            => /\ EmailTaken(calls'[p].req.email)
                    => calls'[p].err = "ErrEmailExists" /\ users' = users
               /\ UsernameTaken(calls'[p].req.username)
                    => calls'[p].err = "ErrUsernameExists"
                       /\ users' = users]_vars

\* the request passes the handler's binding rules and the password strength
\* rules, stated on the characters of the request
WellFormed(req) ==
    /\ IsEmail(req.email)
    /\ Len(req.username) \in 3..50
    /\ Len(req.password) \in 8..100
    /\ Len(req.first_name) \in 0..100
    /\ Len(req.last_name) \in 0..100
    /\ \E k \in 1..Len(req.password) : IsUpper(req.password[k])
    /\ \E k \in 1..Len(req.password) : IsLower(req.password[k])
    /\ \E k \in 1..Len(req.password) : IsDigit(req.password[k])

\* C10 as amended: a Register whose normalized email or username is
\* registered creates and changes no user row; when the request passes the
\* binding rules (well-formed email, username of 3 to 50 characters,
\* password of 8 to 100 characters, first and last name of at most 100
\* characters) and the password-strength rules it is rejected with
\* EmailExists (409) if the email is registered, and otherwise with
\* UsernameExists (409); when it does not, it is rejected with status 400.
C10_DuplicateRejected ==
    [][\A p \in Procs :
         (/\ Returns(p, "Register")
          /\ \/ EmailTaken(calls'[p].req.email)
             \/ UsernameTaken(calls'[p].req.username))
            => /\ users' = users
               /\ refresh_tokens' = refresh_tokens
               /\ calls'[p].user = NoUser
               /\ IF WellFormed(calls'[p].req)
                  THEN /\ calls'[p].status = 409
                       /\ calls'[p].err =
                             IF EmailTaken(calls'[p].req.email)
                             THEN "ErrEmailExists"
                             ELSE "ErrUsernameExists"
                  ELSE /\ calls'[p].status = 400
                       /\ calls'[p].err \in {"binding", "ErrInvalidInput"}]_vars

\* C10 witness: a Register whose email differs from a registered one only in
\* letter case has been rejected with EmailExists
C10_Witness ==
    \E p \in Procs :
       /\ calls[p].pc = "done"
       /\ calls[p].op = "Register"
       /\ calls[p].err = "ErrEmailExists"
       /\ calls[p].status = 409
       /\ \E x \in users :
             /\ x.email # calls[p].req.email
             /\ x.email = ToLower(TrimSpace(calls[p].req.email))

\* C10 witness of the username rule: a Register with a free email and a
\* username that is registered once trimmed and lower-cased has been
\* rejected with UsernameExists
C10_WitnessUsername ==
    \E p \in Procs :
       /\ calls[p].pc = "done"
       /\ calls[p].op = "Register"
       /\ calls[p].err = "ErrUsernameExists"
       /\ \E x \in users :
             /\ x.username # calls[p].req.username
             /\ x.username = ToLower(TrimSpace(calls[p].req.username))

\* C10 witness of the name rule: a Register with a registered email, a
\* password that meets the rules and a first name of 101 characters has
\* been rejected with status 400 by the binding
C10_WitnessLongName ==
    \E p \in Procs :
       /\ calls[p].pc = "done"
       /\ calls[p].op = "Register"
       /\ calls[p].err = "binding"
       /\ calls[p].status = 400
       /\ EmailTaken(calls[p].req.email)
       /\ IsEmail(calls[p].req.email)
       /\ calls[p].req.password = Passw0rd
       /\ Len(calls[p].req.first_name) = 101
       /\ calls[p].req.last_name = <<>>

\* the Register calls that have returned
Returned == {p \in Procs : calls[p].pc = "done"}

\* C11: in every reachable state, under every interleaving of concurrent
\* Register calls, no two user rows share an email or a username and every
\* stored email and username is trimmed and lower-case; and of two returned
\* calls with the same normalized email or username at most one created a
\* row and the other was rejected with EmailExists or UsernameExists.
C11_ConcurrentRegister ==
    /\ \A x, y \in users :
          (x.email = y.email \/ x.username = y.username) => x = y
    /\ \A x \in users :
          /\ x.email = ToLower(TrimSpace(x.email))
          /\ x.username = ToLower(TrimSpace(x.username))
    /\ \A p, q \in Returned :
          (/\ p # q
           /\ calls[p].err = "nil"
           /\ \/ ToLower(TrimSpace(calls[p].req.email))
                    = ToLower(TrimSpace(calls[q].req.email))
              \/ ToLower(TrimSpace(calls[p].req.username))
                    = ToLower(TrimSpace(calls[q].req.username)))
             => calls[q].err \in {"ErrEmailExists", "ErrUsernameExists"}

\* C12: a Register call that fails with a password-strength validation
\* error, EmailExists or UsernameExists has performed no mutation: every step
\* of a Register call that goes on to its next statement, or that returns
\* one of the three errors, leaves the users table, its id sequence and the
\* session store exactly as they were.
C12_FailedRegisterMutatesNothing ==
    [][\A p \in Procs :
         (/\ calls'[p] # calls[p]
          /\ calls'[p].op = "Register"
          /\ \/ calls'[p].pc # "done"
             \/ calls'[p].err \in {"ErrInvalidInput", "ErrEmailExists",
                                   "ErrUsernameExists"})
            => /\ users' = users
               /\ serial' = serial
               /\ refresh_tokens' = refresh_tokens]_vars

\* C12 witness: with a session open, a Register has been rejected with
\* UsernameExists for a username that is registered once normalized
C12_Witness ==
    \E p \in Procs :
       /\ calls[p].pc = "done"
       /\ calls[p].op = "Register"
       /\ calls[p].err = "ErrUsernameExists"
       /\ UsernameTaken(calls[p].req.username)
       /\ ~ EmailTaken(calls[p].req.email)
       /\ refresh_tokens # {}

\* C13: RefreshToken with a correctly signed, stored and unexpired token
\* whose owning user no longer exists or is not active fails with
\* InvalidRefreshToken (401), returns no tokens and adds no session row: the
\* call is refused when it reads the owner, and no statement before its
\* DELETE writes to the store.
C13_InactiveOwnerRefused ==
    [][\A p \in Procs :
         /\ (/\ calls[p].pc = "RefreshGetByID"
             /\ calls'[p] # calls[p]
             /\ \/ GetByID(calls[p].row.user_id).id = 0
                \/ ~ GetByID(calls[p].row.user_id).is_active)
               => Refused(p)
         /\ (/\ calls'[p] # calls[p]
             /\ calls'[p].op = "RefreshToken"
             /\ calls[p].pc \notin {"RefreshDeleteRefreshToken",
                                    "RefreshSaveRefreshToken"})
               => /\ refresh_tokens' = refresh_tokens
                  /\ users' = users]_vars

\* C13 witness: a RefreshToken has been refused when it read the owner,
\* although its token is correctly signed, stored and unexpired, because the
\* owner is not active
C13_Witness ==
    \E p \in Procs :
       /\ calls[p].pc = "done"
       /\ calls[p].op = "RefreshToken"
       /\ calls[p].at = "RefreshGetByID"
       /\ calls[p].err = "ErrInvalidRefreshToken"
       /\ CryptoValid(calls[p].req.refresh_token)
       /\ \E r \in refresh_tokens :
             /\ r.token = calls[p].req.refresh_token
             /\ r.expires_at > now
             /\ ~ GetByID(r.user_id).is_active

\* C14: the session row created by a successful RefreshToken(t) is owned by
\* the user who owned t's row, and the returned access token carries that
\* user's id, email, username and admin flag: the lookup returns a stored
\* row of t, the user read is the one the row names, the access token is
\* minted from that user, and the row inserted and the pair returned are
\* that user's.
C14_RefreshKeepsOwner ==
    [][\A p \in Procs :
         /\ (Looks(p) /\ calls'[p].pc = "RefreshGetByID")
               => /\ calls'[p].row \in refresh_tokens
                  /\ calls'[p].row.token = calls[p].req.refresh_token
         /\ (calls[p].pc = "RefreshGetByID"
             /\ calls'[p].pc = "RefreshGenerateAccessToken")
               => /\ calls'[p].user \in users
                  /\ calls'[p].user.id = calls[p].row.user_id
                  /\ calls'[p].row = calls[p].row
         /\ (calls[p].pc = "RefreshGenerateAccessToken"
             /\ calls'[p].pc = "RefreshDeleteRefreshToken")
               => LET owner == calls[p].user
                      access == calls'[p].accessToken
                  IN  /\ access.user_id = calls[p].row.user_id
                      /\ access.sub = <<DigitSeq[owner.id + 1]>>
                      /\ access.email = owner.email
                      /\ access.username = owner.username
                      /\ access.is_admin = owner.is_admin
                      /\ calls'[p].row = calls[p].row
         /\ (Returns(p, "RefreshToken") /\ calls'[p].err = "nil")
               => /\ calls[p].accessToken.user_id = calls[p].row.user_id
                  /\ calls'[p].tokens.access_token = calls[p].accessToken
                  /\ refresh_tokens' \ refresh_tokens
                        = {[user_id |-> calls[p].row.user_id,
                            token |-> calls'[p].tokens.refresh_token,
                            expires_at |-> calls[p].expiresAt]}]_vars

\* C14 witness: a RefreshToken has succeeded for the second account while
\* the first account holds a session too
C14_Witness ==
    \E p \in Procs :
       /\ calls[p].pc = "done"
       /\ calls[p].op = "RefreshToken"
       /\ calls[p].err = "nil"
       /\ calls[p].tokens.access_token.user_id = Bobby.id
       /\ \E r \in refresh_tokens :
             /\ r.token = calls[p].tokens.refresh_token
             /\ r.user_id = Bobby.id
       /\ \E r \in refresh_tokens : r.user_id = Alice.id

\* the access tokens GenerateAccessToken mints for the administrator
MintedAccessTokens ==
    {[alg |-> "HS256", key |-> secretKey, user_id |-> 1, email |-> AliMail,
      username |-> Ali, is_admin |-> TRUE, exp |-> sec + AccessSeconds,
      iat |-> sec, nbf |-> sec, iss |-> "todo-api", sub |-> <<"1">>] :
        sec \in 0..(MaxNow \div TicksPerSecond)}

\* the step is a request whose header is Bearer followed by an access token,
\* so that the middleware calls ValidateToken
ValidateTokenCalled ==
    /\ last'.op = "AuthMiddleware"
    /\ last'.req.t1 = now
    /\ Len(last'.req.header) = 2
    /\ last'.req.header[1] = "Bearer"

\* C15: an access token minted by GenerateAccessToken verifies immediately
\* after issuance and yields the identity it was minted with; ValidateToken
\* called after the token's expiry instant fails with ExpiredToken
\* specifically, and every other structural or signature failure yields
\* InvalidToken.
C15_ValidateTokenErrors ==
    [][ValidateTokenCalled =>
         LET a == last'.req.header[2]
         IN  /\ (/\ a \in MintedAccessTokens
                 /\ now \div TicksPerSecond = a.iat
                 /\ now' = now)
                   => /\ last'.err = "nil"
                      /\ last'.identity =
                            [ID |-> 1, Email |-> AliMail, Username |-> Ali,
                             IsAdmin |-> TRUE]
             /\ (a \in MintedAccessTokens /\ now > a.exp * TicksPerSecond)
                   => last'.err = "ErrExpiredToken"
             /\ (a \notin MintedAccessTokens)
                   => last'.err = "ErrInvalidToken"]_vars

\* C16: AuthMiddleware answers a request carrying an expired access token
\* with "Token has expired" and a request whose token fails verification for
\* any other reason with "Invalid token"; in both cases the request is
\* aborted with 401 and no identity is attached.
C16_MiddlewareSignals ==
    [][ValidateTokenCalled =>
         LET a == last'.req.header[2]
         IN  /\ (a \in MintedAccessTokens /\ now > a.exp * TicksPerSecond)
                   => /\ last'.message = "Token has expired"
                      /\ last'.status = 401
                      /\ last'.aborted
                      /\ last'.identity = NoIdentity
             /\ (a \notin MintedAccessTokens)
                   => /\ last'.message = "Invalid token"
                      /\ last'.status = 401
                      /\ last'.aborted
                      /\ last'.identity = NoIdentity]_vars

\* C17: the decision of the request authenticator and the identity it
\* attaches depend on the bearer token and the clock only: a request with a
\* minted access token read within its validity is let through as the user
\* the token names in every state of the session store and the users table,
\* also after Logout or LogoutAll removed the refresh token issued with it,
\* and a request is refused in every state otherwise.
C17_AuthenticatorStateless ==
    [][(last'.op = "AuthMiddleware" /\ last'.req.t1 = now) =>
         LET h == last'.req.header
             accepted ==
                 /\ Len(h) = 2
                 /\ h[1] = "Bearer"
                 /\ h[2] \in MintedAccessTokens
                 /\ h[2].nbf * TicksPerSecond <= now
                 /\ now < h[2].exp * TicksPerSecond
                 /\ now' <= h[2].exp * TicksPerSecond
         IN  IF accepted
             THEN /\ last'.status = 200
                  /\ ~ last'.aborted
                  /\ last'.identity =
                        [ID |-> h[2].user_id, Email |-> h[2].email,
                         Username |-> h[2].username, IsAdmin |-> h[2].is_admin]
             ELSE /\ last'.status = 401
                  /\ last'.aborted
                  /\ last'.identity = NoIdentity]_vars

\* C17 witness: a request has just been let through with the access token of
\* a session whose refresh token Logout or LogoutAll removed, the session
\* store being empty
C17_Witness ==
    /\ last.op = "AuthMiddleware"
    /\ last.status = 200
    /\ last.identity.ID = Alice.id
    /\ refresh_tokens = {}
    /\ revoked[TokenOfSecond(last.req.header[2].iat)] \in {"Logout", "LogoutAll"}

\* C18: Logout(t) always succeeds, whether or not a row for t exists; it
\* removes the row whose token equals t and no other row, so that calling it
\* again finds no such row and leaves the store as the first call left it.
C18_LogoutIdempotent ==
    [][LogsOut("Logout")
          => /\ last'.err = "nil"
             /\ last'.status = 200
             /\ refresh_tokens' =
                   {r \in refresh_tokens : r.token # last'.req.refresh_token}
             /\ {r \in refresh_tokens' : r.token # last'.req.refresh_token}
                   = refresh_tokens'
             /\ users' = users]_vars

\* C18 witness: Logout has just succeeded for a minted token that has no row
\* and never had one removed, while another session stays open
C18_Witness ==
    /\ last.op = "Logout"
    /\ last.status = 200
    /\ last.req.refresh_token \in SignedTokens
    /\ revoked[last.req.refresh_token] = "none"
    /\ refresh_tokens # {}

\* the first rule of the claim that password p does not meet, counting
\* characters and letters of any alphabet
FirstUnmetRule(p) ==
    IF Len(p) < 8 THEN "length"
    ELSE IF ~ \E i \in 1..Len(p) : IsUpper(p[i]) \/ p[i] = CapitalEAcute
         THEN "uppercase"
    ELSE IF ~ \E i \in 1..Len(p) : IsLower(p[i]) \/ p[i] = EAcute
         THEN "lowercase"
    ELSE IF ~ \E i \in 1..Len(p) : IsDigit(p[i]) THEN "number"
    ELSE "nil"

\* C19: password-strength validation accepts a password iff it has at least
\* 8 characters and contains an uppercase letter, a lowercase letter and a
\* digit; when it rejects, the error names the first unmet rule in the order
\* length, uppercase, lowercase, digit, and Register then fails with a
\* validation error.
C19_PasswordStrength ==
    [][/\ (last'.op = "ValidatePasswordStrength" /\ calls' = calls)
             => last'.err = FirstUnmetRule(last'.req.password)
       /\ \A p \in Procs :
             /\ (/\ Returns(p, "Register")
                 /\ calls'[p].err # "binding"
                 /\ FirstUnmetRule(calls'[p].req.password) # "nil")
                   => /\ calls'[p].err = "ErrInvalidInput"
                      /\ calls'[p].status = 400
             /\ (Returns(p, "Register") /\ calls'[p].err = "ErrInvalidInput")
                   => FirstUnmetRule(calls'[p].req.password) # "nil"]_vars

\* C20: for every password p that Register accepts (8 to 100 characters)
\* HashPassword(p) succeeds and CheckPassword(p, HashPassword(p)) succeeds,
\* and CheckPassword(q, HashPassword(p)) fails with the invalid-password
\* error for every q different from p.
C20_HashRoundTrip ==
    [][(/\ last'.op = "CheckPassword"
        /\ calls' = calls
        /\ Len(last'.req.password) \in 8..100)
          => /\ last'.req.hashed = "nil"
             /\ last'.err = IF last'.req.candidate = last'.req.password
                            THEN "nil" ELSE "ErrInvalidPassword"]_vars

\* the page size a query value asks for, and the one the listing uses
RequestedPageSize(q) == IF q = Nil THEN Int64(20) ELSE Atoi(q[1]).n
EffectivePageSize(q) ==
    IF \/ Less64(RequestedPageSize(q), Int64(1))
       \/ Less64(Int64(100), RequestedPageSize(q))
    THEN 20 ELSE IntValue(RequestedPageSize(q))

\* ceil(a / b) for b > 0
Ceil(a, b) == (a + b - 1) \div b

\* C21: for every page and page_size query value, listing todos answers 200
\* with at most the effective page size of items (default 20; values
\* outside 1..100 are replaced by 20) and pagination metadata in which
\* page_size is the size actually used and
\* total_pages = ceil(total_count / page_size).
C21_ListPagination ==
    [][(calls[1].pc = "List" /\ calls'[1].pc # "List")
          => LET size == EffectivePageSize(last'.req.page_size)
             IN  /\ last'.status = 200
                 /\ Len(last'.data) <= size
                 /\ last'.pagination.page_size = Int64(size)
                 /\ last'.pagination.total_count
                       = Int64(calls[1].totalCount)
                 /\ last'.pagination.total_pages
                       = Int64(Ceil(calls[1].totalCount, size))]_vars

\* C22: after any sequence of todo Create and Update operations a todo's
\* completed_at is set iff its completed flag is true: Create yields
\* completed = false with no completed_at, an Update with completed = true
\* sets completed_at, an Update with completed = false clears it, and an
\* Update that omits completed changes neither field.
C22_CompletedAtIffCompleted ==
    [][/\ \A t \in todos' : t.completed <=> (t.completed_at # Null)
       /\ (/\ last'.op = "CreateTodo" /\ last'.status = 201
           /\ now' = now /\ calls' = calls)
             => /\ last'.user \in todos' \ todos
                /\ ~ last'.user.completed
                /\ last'.user.completed_at = Null
       /\ (/\ last'.op = "UpdateTodo" /\ last'.status = 200
           /\ now' = now /\ calls' = calls)
             => \E old \in todos :
                   LET new == last'.user
                       c == last'.req.body.completed
                   IN  /\ old.id = new.id
                       /\ todos' = (todos \ {old}) \cup {new}
                       /\ c = Nil => /\ new.completed = old.completed
                                     /\ new.completed_at = old.completed_at
                       /\ c = Ptr(TRUE) => /\ new.completed
                                           /\ new.completed_at = now
                       /\ c = Ptr(FALSE) => /\ ~ new.completed
                                            /\ new.completed_at = Null]_vars

\* C22 witness: an Update that omits completed has just left a todo that
\* was completed earlier completed, next to a todo that never was
C22_Witness ==
    /\ last.op = "UpdateTodo"
    /\ last.status = 200
    /\ last.req.body.completed = Nil
    /\ last.user \in todos
    /\ last.user.completed
    /\ last.user.completed_at < last.user.updated_at
    /\ \E t \in todos : ~ t.completed /\ t.completed_at = Null

\* goroutines p and q have both returned a token pair for the same
\* presented token
BothRotated(p, q) ==
    /\ p # q
    /\ calls[p].pc = "done" /\ calls[q].pc = "done"
    /\ calls[p].op = "RefreshToken" /\ calls[q].op = "RefreshToken"
    /\ calls[p].err = "nil" /\ calls[q].err = "nil"
    /\ calls[p].req.refresh_token = calls[q].req.refresh_token

\* C23: rotation is two independent store operations, so a token can be
\* used twice concurrently: the INSERT of a RefreshToken call goes through
\* whenever the minted string is free, whether or not the row of the
\* presented token is still there, and when it does the call returns the
\* pair and the store gains the new row next to the row another call
\* inserted for the same presented token.  (The interleaving in which both
\* calls pass the lookup before either deletes and both return a pair is
\* the witness.)
C23_TokenUsedTwice ==
    [][\A p \in Procs :
         /\ (calls[p].pc = "RefreshGenerateRefreshToken"
             /\ calls'[p].pc = "RefreshSaveRefreshToken")
               => /\ calls'[p].refreshToken = GenerateRefreshToken(now).token
                  /\ calls'[p].expiresAt
                        = now + RefreshSeconds * TicksPerSecond
                  /\ calls'[p].row = calls[p].row
         /\ (calls[p].pc = "RefreshSaveRefreshToken"
             /\ calls'[p].pc = "done")
               => IF TokenIsFree(refresh_tokens, calls[p].refreshToken)
                  THEN /\ calls'[p].err = "nil"
                       /\ calls'[p].status = 200
                       /\ calls'[p].tokens.refresh_token
                             = calls[p].refreshToken
                       /\ refresh_tokens'
                             = refresh_tokens
                                \cup {[user_id |-> calls[p].row.user_id,
                                       token |-> calls[p].refreshToken,
                                       expires_at |-> calls[p].expiresAt]}
                  ELSE /\ calls'[p].err = "internal"
                       /\ calls'[p].tokens = NoTokens
                       /\ refresh_tokens' = refresh_tokens]_vars

\* C23 witness: two calls presented the same token, one passed the lookup
\* while the other held the row and had not deleted it, both returned a
\* token pair with a refresh token other than the presented one, and the
\* user owns the two new rows
C23_Witness ==
    \E p, q \in Procs :
       /\ BothRotated(p, q)
       /\ calls[p].overlap
       /\ calls[p].tokens.refresh_token # calls[q].tokens.refresh_token
       /\ calls[p].tokens.refresh_token # calls[p].req.refresh_token
       /\ calls[q].tokens.refresh_token # calls[q].req.refresh_token
       /\ \A x \in {p, q} :
             \E r \in refresh_tokens :
                /\ r.token = calls[x].tokens.refresh_token
                /\ r.user_id = Alice.id

\* C24: once LogoutAll(u) has returned and every operation that was in
\* flight concurrently with it has finished, no session row owned by u
\* exists unless u completed a Login that started after LogoutAll returned;
\* in particular a RefreshToken call for u that overlaps LogoutAll cannot
\* leave a usable refresh token behind: a call whose row LogoutAll removed
\* between the call's lookup and its DELETE inserts no row.
C24_LogoutAllIsFinal ==
    [][\A p \in Procs :
         (/\ calls[p].pc = "RefreshSaveRefreshToken"
          /\ calls'[p].pc = "done"
          /\ revoked[calls[p].req.refresh_token] = "LogoutAll")
            => refresh_tokens' = refresh_tokens]_vars

\* C25: a failed refresh never consumes the token: whenever RefreshToken(t)
\* returns an error (InvalidRefreshToken or an internal/store error) the
\* session store is unchanged, so a row of t that the call's lookup found
\* present and unexpired is still present when the call returns.
C25_FailedRefreshKeepsToken ==
    [][\A p \in Procs :
         (Returns(p, "RefreshToken") /\ calls'[p].err # "nil")
            => /\ refresh_tokens' = refresh_tokens
               /\ calls[p].pc \in HoldsRow
                     => calls[p].row \in refresh_tokens']_vars

\* C26: failure of a best-effort side operation never fails the primary
\* operation: if the last-login update fails during Login, or the deletion
\* of the old row fails during RefreshToken, the call still returns a token
\* pair whose refresh token has been persisted (stated for a store whose
\* other statements work).
C26_SideFailuresTolerated ==
    [][\A p \in Procs :
         /\ LoginUpdateLastLogin(p, "lastlogin")
               => /\ calls'[p].err = "nil"
                  /\ calls'[p].tokens # NoTokens
                  /\ calls'[p].tokens.refresh_token
                        \in TokensOf(refresh_tokens')
         /\ (/\ RefreshSaveRefreshToken(p, "none")
             /\ calls[p].row \in refresh_tokens)
               => /\ calls'[p].err = "nil"
                  /\ calls'[p].tokens # NoTokens
                  /\ calls'[p].tokens.refresh_token
                        \in TokensOf(refresh_tokens')]_vars

\* the statements of a RefreshToken call between its lookup and its DELETE
BeforeDelete ==
    {"RefreshGetByID", "RefreshGenerateAccessToken",
     "RefreshDeleteRefreshToken"}

\* in this step the DELETE of the periodic sweep runs
Sweeps ==
    /\ calls[Sweeper].pc = "DeleteExpiredRefreshTokens"
    /\ calls'[Sweeper].pc = "done"

\* the statements of a call at which it holds a minted refresh token that
\* its INSERT is about to store
BeforeInsert == {"LoginSaveRefreshToken", "RefreshSaveRefreshToken"}

\* C27 as claimed: the periodic expired-token sweep can interleave at any
\* point with Login, RefreshToken, Logout and LogoutAll without changing
\* their outcomes: its DELETE leaves every call in flight with the outcome
\* it had, so the lookup a call is about to run with the clock reading it
\* holds returns what it returned before, no row that a lookup would return
\* at the same instant or later is removed, and the users are left alone.
C27_SweepIsHarmless_Original ==
    [][Sweeps
          => /\ \A t \in SignedTokens, U \in now..MaxNow :
                   GetRefreshToken(refresh_tokens', t, U)
                      = GetRefreshToken(refresh_tokens, t, U)
             /\ \A p \in Procs :
                   /\ calls'[p] = calls[p]
                   /\ calls[p].pc = "RefreshGetRefreshToken"
                         => GetRefreshToken(refresh_tokens',
                                            calls[p].req.refresh_token,
                                            calls[p].observed)
                               = GetRefreshToken(refresh_tokens,
                                                 calls[p].req.refresh_token,
                                                 calls[p].observed)
             /\ users' = users]_vars

\* C27 as amended: the DELETE of a sweep that read the clock at T removes
\* only rows that expired before T, so it removes no row that a lookup
\* reading the clock at T or later would return, no call between its lookup
\* and its DELETE loses an unexpired row, a string minted after the sweep is
\* free or taken as before, Logout and LogoutAll leave the same rows whether
\* they run before or after it, and the users and the calls in flight are
\* left alone.  Two outcomes do change: a lookup that read the clock at
\* U < T and runs its SELECT after the sweep finds no row when the row of
\* its token expires between U and T, and an INSERT of a string whose stored
\* row expired before T goes through instead of failing on the UNIQUE
\* constraint.
C27_SweepIsHarmless ==
    [][Sweeps
          => LET T == calls[Sweeper].observed
             IN  /\ T <= now
                 /\ \A r \in refresh_tokens \ refresh_tokens' :
                       r.expires_at < T
                 /\ \A t \in SignedTokens, U \in T..MaxNow :
                       GetRefreshToken(refresh_tokens', t, U)
                          = GetRefreshToken(refresh_tokens, t, U)
                 /\ \A U \in now..MaxNow :
                       TokenIsFree(refresh_tokens',
                                   GenerateRefreshToken(U).token)
                          <=> TokenIsFree(refresh_tokens,
                                          GenerateRefreshToken(U).token)
                 /\ \A t \in SignedTokens :
                       DeleteRefreshToken(refresh_tokens', t)
                          = {r \in DeleteRefreshToken(refresh_tokens, t) :
                               r.expires_at >= T}
                 /\ \A u \in {Alice.id, Bobby.id} :
                       DeleteUserRefreshTokens(refresh_tokens', u)
                          = {r \in DeleteUserRefreshTokens(refresh_tokens, u) :
                               r.expires_at >= T}
                 /\ \A p \in Procs :
                       /\ calls'[p] = calls[p]
                       /\ (/\ calls[p].pc \in BeforeDelete
                           /\ calls[p].row \in refresh_tokens
                           /\ calls[p].row.expires_at > now)
                             => calls[p].row \in refresh_tokens'
                       /\ calls[p].pc = "RefreshGetRefreshToken"
                             => LET t == calls[p].req.refresh_token
                                    U == calls[p].observed
                                IN  GetRefreshToken(refresh_tokens', t, U)
                                      = IF \E r \in refresh_tokens :
                                              /\ r.token = t
                                              /\ U < r.expires_at
                                              /\ r.expires_at < T
                                        THEN NoRow
                                        ELSE GetRefreshToken(refresh_tokens,
                                                             t, U)
                       /\ calls[p].pc \in BeforeInsert
                             => (TokenIsFree(refresh_tokens',
                                             calls[p].refreshToken)
                                   <=> \/ TokenIsFree(refresh_tokens,
                                                      calls[p].refreshToken)
                                       \/ \E r \in refresh_tokens :
                                             /\ r.token = calls[p].refreshToken
                                             /\ r.expires_at < T)
                 /\ users' = users]_vars

\* C27 witness: the sweep has removed the row a RefreshToken call in flight
\* had looked up and not yet deleted
C27_Witness ==
    /\ calls[Sweeper].pc = "done"
    /\ \E p \in Procs :
          /\ calls[p].pc \in BeforeDelete
          /\ revoked[calls[p].row.token] = "sweep"
          /\ calls[p].row \notin refresh_tokens

\* C27 witness of the lookup whose outcome the sweep changes: a call has
\* been refused at its lookup, the clock reading it held being earlier than
\* the expiry of the row that the sweep removed
C27_WitnessStaleLookup ==
    \E p \in Procs :
       /\ calls[p].pc = "done"
       /\ calls[p].op = "RefreshToken"
       /\ calls[p].at = "RefreshGetRefreshToken"
       /\ calls[p].err = "ErrInvalidRefreshToken"
       /\ revoked[calls[p].req.refresh_token] = "sweep"
       /\ calls[Sweeper].pc = "done"
       /\ refresh_tokens = {}

\* C27 witness of a logout between the two steps of the sweep: Logout has
\* just removed a row while the sweep holds its clock reading
C27_WitnessLogout ==
    /\ calls[Sweeper].pc = "DeleteExpiredRefreshTokens"
    /\ last.op = "Logout"
    /\ revoked[last.req.refresh_token] = "Logout"

\* C28: the valid-token lookup at time now returns the row for token t iff
\* such a row exists and its expires_at is strictly greater than now; a row
\* with expires_at <= now is never returned, even when no sweep has removed
\* it yet.  The lookup's time is the clock reading it binds to its SELECT.
C28_LookupIsStrict ==
    [][\A p \in Procs :
         /\ (calls[p].pc = "RefreshGetRefreshTokenNow"
             /\ calls'[p].pc = "RefreshGetRefreshToken")
               => calls'[p].observed = now
         /\ Looks(p)
               => LET t == calls[p].req.refresh_token
                      live == {r \in refresh_tokens :
                                 /\ r.token = t
                                 /\ r.expires_at > calls[p].observed}
                  IN  IF live # {}
                      THEN /\ calls'[p].pc = "RefreshGetByID"
                           /\ calls'[p].row \in live
                      ELSE Refused(p)]_vars

\* C28 witness: a call has been refused at the lookup while the row of its
\* token, expiring at this very instant, is still in the store
C28_Witness ==
    \E p \in Procs :
       /\ calls[p].pc = "done"
       /\ calls[p].op = "RefreshToken"
       /\ calls[p].at = "RefreshGetRefreshToken"
       /\ calls[p].err = "ErrInvalidRefreshToken"
       /\ \E r \in refresh_tokens :
             r.token = calls[p].req.refresh_token /\ r.expires_at = now

\* C29: a sweep observed at time T deletes exactly the session rows with
\* expires_at strictly before T; every row with expires_at equal to or
\* after T, and every user row, is left unchanged.  T is the clock reading
\* the sweep binds to its DELETE.
C29_SweepDeletesExpiredOnly ==
    [][/\ (Free(Sweeper) /\ calls'[Sweeper] # calls[Sweeper])
             => /\ calls'[Sweeper].observed = now
                /\ refresh_tokens' = refresh_tokens
                /\ users' = users
       /\ Sweeps
             => LET T == calls[Sweeper].observed
                IN  /\ calls'[Sweeper].observed = T
                    /\ calls'[Sweeper].err = "nil"
                    /\ refresh_tokens \ refresh_tokens'
                          = {r \in refresh_tokens : r.expires_at < T}
                    /\ refresh_tokens'
                          = {r \in refresh_tokens : r.expires_at >= T}
                    /\ users' = users]_vars

\* C29 witness: a sweep has run with the clock reading at which a stored
\* row expires, after the clock moved past it, and the row is still there
C29_Witness ==
    /\ calls[Sweeper].pc = "done"
    /\ calls[Sweeper].observed < now
    /\ \E r \in refresh_tokens : r.expires_at = calls[Sweeper].observed

\* the active accounts a login with identifier ident and password pw names:
\* those whose stored username or email is ident, trimmed and lower-cased,
\* and whose password is pw
AccountsNamed(ident, pw) ==
    {x \in users : /\ x.is_active
                   /\ ToLower(TrimSpace(ident)) \in {x.username, x.email}
                   /\ PasswordMatches(pw, x)}

\* C30: every account that Register accepts can log in: a Login with the
\* username or the email of a registered, active account, in any letter
\* case and with blanks around it, and with the account's password has its
\* credentials accepted and goes on to mint the token pair.
C30_RegisteredCanLogin ==
    [][\A p \in Procs :
         (/\ Begins(p, "Login")
          /\ AccountsNamed(calls'[p].req.username,
                           calls'[p].req.password) # {})
            => /\ calls'[p].pc = "LoginGenerateAccessToken"
               /\ calls'[p].user
                     \in AccountsNamed(calls'[p].req.username,
                                       calls'[p].req.password)]_vars

====
